---- MODULE Spec2Model ----
(***************************************************************************)
(* Model of the deployment-link correlation and repository-data            *)
(* aggregation logic of the GitHub service (services/github.js):           *)
(* parseRepoUrl, fetchDeploymentLinks, fetchEnhancedRepositoryData,        *)
(* fetchAggregatedData / aggregateVersion / sortObjectKeys.                *)
(*                                                                         *)
(* JavaScript values are records with a type tag t; strings are sequences  *)
(* of one-character strings so that the regular expressions of the code    *)
(* are evaluated character by character.                                   *)
(***************************************************************************)
EXTENDS Integers, Sequences, FiniteSets, TLC

VARIABLES
    \* parseRepoUrl harness
    input,      \* the argument repoUrl
    parsed,     \* the value returned (or the exception raised)
    ppc,        \* "ready" before the call, "done" after it
    \* shared state
    cache,      \* packageJsonCache: cache key -> stored value, Undefined when absent
    \* fetchDeploymentLinks
    upstream,       \* platform -> what its client returns when called
    linkCalls,      \* call id -> [pc, owner, name, data, result]
    platformCalls,  \* platform -> number of calls made to its client
    \* fetchAggregatedData
    github,         \* what getRepositories answers: the names of the repositories, or null
    aggCalls,       \* call id -> [pc, versionType, repos, result]
    \* fetchEnhancedRepositoryData
    enh,            \* the call: [pc, options, parts, result]
    \* getEnhancedRepositories
    batch,          \* the call: [pc, options, repos, asm, result]
    \* node-cache expiry
    clock,          \* [now: seconds since the process started, waits: periods elapsed]
    storedAt,       \* the time at which the 'deploymentPlatforms' entry was last stored
    \* routes
    requests,       \* request id -> [pc, versionType, response]
    \* platform clients
    clients,        \* platform -> [pc, token, requests, result]
    \* fetchNpmPackageInfo
    npmCalls,       \* call id -> [pc, pkg, workflow, registry, result]
    \* single calls of the fetchers
    probe,          \* the call: [pc, fn, outcome, requests, result]
    \* one aggregation pass, turn by turn
    pass            \* [pc, versionType, repos, i, packageDetails, aggregatedData, tempData, result]

parseVars == <<input, parsed, ppc>>

linkVars == <<upstream, linkCalls, platformCalls>>

aggVars == <<github, aggCalls>>

\* the variables of the harnesses added after the first four
clockVars == <<clock, storedAt>>

\* the variables of the route and client harnesses
sideVars == <<requests, clients, npmCalls, probe>>

\* the variables of the turn-by-turn harnesses
laterVars == <<pass>>

auxVars == <<batch, clock, storedAt, requests, clients, npmCalls, probe, pass>>

vars == <<input, parsed, ppc, cache, upstream, linkCalls, platformCalls, github, aggCalls, enh,
          batch, clock, storedAt, requests, clients, npmCalls, probe, pass>>

----------------------------------------------------------------------------
(* JavaScript values *)

Null == [t |-> "null"]

Undefined == [t |-> "undefined"]

Thrown == [t |-> "throw"]

Str(s) == [t |-> "string", s |-> s]

Num(n) == [t |-> "number", n |-> n]

Bool(b) == [t |-> "boolean", b |-> b]

EmptyObject == [t |-> "object"]

EmptyArray == [t |-> "array"]

\* ToBoolean: null, undefined, "", 0 and false are falsy
Truthy(v) ==
    CASE v.t = "null" -> FALSE
      [] v.t = "undefined" -> FALSE
      [] v.t = "string" -> Len(v.s) > 0
      [] v.t = "number" -> v.n # 0
      [] v.t = "boolean" -> v.b
      [] OTHER -> TRUE

----------------------------------------------------------------------------
(* String literals used by the code *)

L_https == <<"h","t","t","p","s",":","/","/">>

L_http == <<"h","t","t","p",":","/","/">>

L_www == <<"w","w","w",".">>

L_github_com == <<"g","i","t","h","u","b",".","c","o","m">>

L_git_at == <<"g","i","t","@">>

L_dot_git == <<".","g","i","t">>

L_slash == <<"/">>

L_colon == <<":">>

----------------------------------------------------------------------------
(* Regular-expression primitives *)

\* the literal lit occurs in s at position i
HasAt(s, i, lit) ==
    /\ i >= 1
    /\ i + Len(lit) - 1 <= Len(s)
    /\ \A k \in 1..Len(lit) : s[i + k - 1] = lit[k]

\* length of the longest run of characters outside excl starting at i
\* (a greedy negated character class [^...]+ or [^...]*)
RunLen(s, i, excl) ==
    CHOOSE n \in 0..(Len(s) - i + 1) :
        /\ \A k \in 0..(n - 1) : s[i + k] \notin excl
        /\ (i + n > Len(s) \/ s[i + n] \in excl)

Slice(s, i, n) == SubSeq(s, i, i + n - 1)

\* ([^\/]+)\/([^\/\.]+)(?:\.git)? tried at position p: the owner class is
\* greedy and must be followed by '/', the name class is greedy and non-empty
\* (backtracking the owner cannot help: a shorter owner is not followed by '/')
OwnerNameOK(s, p) ==
    LET ol == RunLen(s, p, {"/"})
        np == p + ol + 1
    IN  /\ p <= Len(s)
        /\ ol >= 1
        /\ p + ol <= Len(s)
        /\ s[p + ol] = "/"
        /\ np <= Len(s)
        /\ RunLen(s, np, {"/", "."}) >= 1

\* the name class written [^\/]+ : the '.git' suffix stays in the name
OwnerNameAtKeepDot(s, p) ==
    LET ol == RunLen(s, p, {"/"})
        np == p + ol + 1
    IN  [t |-> "object",
         owner |-> Slice(s, p, ol),
         name |-> Slice(s, np, RunLen(s, np, {"/"}))]

OwnerNameAt(s, p) ==
    LET ol == RunLen(s, p, {"/"})
        np == p + ol + 1
    IN  [t |-> "object",
         owner |-> Slice(s, p, ol),
         name |-> Slice(s, np, RunLen(s, np, {"/", "."}))]

\* the alternatives of (?:https?:\/\/)?(?:www\.)? in the order the regex
\* engine tries them (each optional group is greedy: present before absent)
WebPrefixes ==
    << L_https \o L_www, L_https, L_http \o L_www, L_http, L_www, <<>> >>

\* /(?:https?:\/\/)?(?:www\.)?github\.com\/([^\/]+)\/([^\/\.]+)(?:\.git)?/
\* tried with the match starting at position i, prefix alternative k
WebTryAt(s, i, k) ==
    LET pre == WebPrefixes[k] \o L_github_com \o L_slash
    IN  HasAt(s, i, pre) /\ OwnerNameOK(s, i + Len(pre))

\* the web pattern with the name class written [^\/]+
WebMatchNameToSlash(s) ==
    LET starts == {i \in 1..Len(s) : \E k \in 1..Len(WebPrefixes) : WebTryAt(s, i, k)}
    IN  IF starts = {} THEN Null
        ELSE LET i == CHOOSE x \in starts : \A y \in starts : x <= y
                 k == CHOOSE x \in 1..Len(WebPrefixes) :
                        /\ WebTryAt(s, i, x)
                        /\ \A y \in 1..(x - 1) : ~WebTryAt(s, i, y)
                 pre == WebPrefixes[k] \o L_github_com \o L_slash
             IN  OwnerNameAtKeepDot(s, i + Len(pre))

\* String.prototype.match: leftmost start, first alternative that succeeds
WebMatch(s) ==
    LET starts == {i \in 1..Len(s) : \E k \in 1..Len(WebPrefixes) : WebTryAt(s, i, k)}
    IN  IF starts = {} THEN Null
        ELSE LET i == CHOOSE x \in starts : \A y \in starts : x <= y
                 k == CHOOSE x \in 1..Len(WebPrefixes) :
                        /\ WebTryAt(s, i, x)
                        /\ \A y \in 1..(x - 1) : ~WebTryAt(s, i, y)
                 pre == WebPrefixes[k] \o L_github_com \o L_slash
             IN  OwnerNameAt(s, i + Len(pre))

\* /git@github\.com:([^\/]+)\/([^\/\.]+)(?:\.git)?/
SshTryAt(s, i) ==
    LET pre == L_git_at \o L_github_com \o L_colon
    IN  HasAt(s, i, pre) /\ OwnerNameOK(s, i + Len(pre))

\* the owner put in lower case
SshMatchLowerCase(s) ==
    LET starts == {i \in 1..Len(s) : SshTryAt(s, i)}
        lower(c) == CASE c = "A" -> "a" [] c = "Y" -> "y" [] OTHER -> c
    IN  IF starts = {} THEN Null
        ELSE LET i == CHOOSE x \in starts : \A y \in starts : x <= y
                 m == OwnerNameAt(s, i + Len(L_git_at \o L_github_com \o L_colon))
             IN  [t |-> "object",
                  owner |-> [k \in 1..Len(m.owner) |-> lower(m.owner[k])],
                  name |-> m.name]

SshMatch(s) ==
    LET starts == {i \in 1..Len(s) : SshTryAt(s, i)}
    IN  IF starts = {} THEN Null
        ELSE LET i == CHOOSE x \in starts : \A y \in starts : x <= y
             IN  OwnerNameAt(s, i + Len(L_git_at \o L_github_com \o L_colon))

\* the pattern without its end anchor: /^([^\/]+)\/([^\/]+)/
BareMatchNoEnd(s) ==
    LET ol == RunLen(s, 1, {"/"})
        np == ol + 2
    IN  IF /\ ol >= 1
           /\ ol + 1 <= Len(s)
           /\ np <= Len(s)
           /\ RunLen(s, np, {"/"}) >= 1
        THEN [t |-> "object",
              owner |-> Slice(s, 1, ol),
              name |-> Slice(s, np, RunLen(s, np, {"/"}))]
        ELSE Null

\* /^([^\/]+)\/([^\/]+)$/
BareMatch(s) ==
    LET ol == RunLen(s, 1, {"/"})
        np == ol + 2
    IN  IF /\ ol >= 1
           /\ ol + 1 <= Len(s)
           /\ np <= Len(s)
           /\ RunLen(s, np, {"/"}) = Len(s) - np + 1
        THEN [t |-> "object",
              owner |-> Slice(s, 1, ol),
              name |-> Slice(s, np, Len(s) - np + 1)]
        ELSE Null

\* repoUrl.match(...) on a value that is not a string raises a TypeError
parseRepoUrlUnguarded(repoUrl) ==
    IF repoUrl.t # "string" THEN Thrown
    ELSE IF WebMatch(repoUrl.s) # Null THEN WebMatch(repoUrl.s)
    ELSE IF SshMatch(repoUrl.s) # Null THEN SshMatch(repoUrl.s)
    ELSE BareMatch(repoUrl.s)

parseRepoUrl(repoUrl) ==
    IF ~Truthy(repoUrl) \/ repoUrl.t # "string" THEN Null
    ELSE LET web == WebMatch(repoUrl.s)
             ssh == SshMatch(repoUrl.s)
         IN  IF web # Null THEN web
             ELSE IF ssh # Null THEN ssh
             ELSE BareMatch(repoUrl.s)

----------------------------------------------------------------------------
(* Inputs of the parseRepoUrl harness *)

acme == <<"a","c","m","e">>

widgets == <<"w","i","d","g","e","t","s">>

Owners == {acme, <<"x">>, <<"A","-","1">>}

Names == {widgets, <<"y">>, <<"w","_","2">>}

NotARepoUrl == <<"n","o","t"," ","a"," ","r","e","p","o"," ","u","r","l">>

\* a host that is not github.com
example_org == <<"e","x","a","m","p","l","e",".","o","r","g">>

\* the spellings of a reference to repository O/N
Spelling(k, O, N) ==
    CASE k = 1 -> L_https \o L_github_com \o L_slash \o O \o L_slash \o N
      [] k = 2 -> L_https \o L_github_com \o L_slash \o O \o L_slash \o N \o L_dot_git
      [] k = 3 -> L_git_at \o L_github_com \o L_colon \o O \o L_slash \o N \o L_dot_git
      [] k = 4 -> O \o L_slash \o N
      [] k = 5 -> L_http \o L_www \o L_github_com \o L_slash \o O \o L_slash \o N
      [] k = 6 -> L_git_at \o L_github_com \o L_colon \o O \o L_slash \o N
      [] k = 7 -> L_github_com \o L_slash \o O \o L_slash \o N \o L_slash
      [] k = 8 -> O \o L_slash \o N \o L_slash \o N
      [] k = 9 -> O \o N
      [] k = 10 -> L_https \o L_github_com \o L_slash \o O
      [] k = 11 -> L_slash \o N
      [] k = 12 -> O \o L_slash
      [] k = 13 -> L_https \o <<"n","o","t">> \o L_github_com \o L_slash \o O \o L_slash \o N
      [] k = 14 -> L_https \o example_org \o L_slash \o L_github_com \o L_slash
                       \o O \o L_slash \o N
      [] k = 15 -> L_https \o L_github_com \o <<".">> \o example_org \o L_slash
                       \o O \o L_slash \o N
      [] k = 16 -> L_https \o example_org \o L_slash \o O \o L_slash \o N
      [] OTHER -> L_http \o L_github_com \o L_slash \o O \o L_slash \o N

NumSpellings == 16

NonStrings ==
    {Null, Undefined, Num(0), Num(5), Bool(FALSE), Bool(TRUE), EmptyObject, EmptyArray}

ParseInputs ==
    NonStrings
    \cup {Str(<<>>), Str(NotARepoUrl)}
    \cup {Str(Spelling(k, O, N)) : k \in 1..NumSpellings, O \in Owners, N \in Names}

NotCalled == [t |-> "none"]

----------------------------------------------------------------------------
(* The shared cache (packageJsonCache) and the idle values of every call *)

CacheKeys == {"deploymentPlatforms", "packageData-min", "packageData-max", "packageData-minmax"}

\* cache.get of an absent key is undefined
EmptyCache == [k \in CacheKeys |-> Undefined]

Platforms == {"netlify", "vercel", "render"}

NumLinkCalls == 2

LinkCallIds == 1..NumLinkCalls

IdleCall == [pc |-> "idle"]

NumAggCalls == 2

AggCallIds == 1..NumAggCalls

NumNpmCalls == 2

NpmCallIds == 1..NumNpmCalls

\* an empty platform listing
NoListing == [t |-> "array", items |-> <<>>]

\* the harnesses added after the first four are at rest
AuxIdle ==
    /\ batch = IdleCall
    /\ clock = [now |-> 0, waits |-> 0]
    /\ storedAt = 0
    /\ requests = [c \in AggCallIds |-> IdleCall]
    /\ clients = [p \in Platforms |-> IdleCall]
    /\ npmCalls = [c \in NpmCallIds |-> IdleCall]
    /\ probe = IdleCall
    /\ pass = IdleCall

----------------------------------------------------------------------------
(* parseRepoUrl harness: one call per input *)

ParseInit ==
    /\ input \in ParseInputs
    /\ parsed = NotCalled
    /\ ppc = "ready"
    /\ cache = EmptyCache
    /\ upstream = [p \in Platforms |-> NoListing]
    /\ linkCalls = [c \in LinkCallIds |-> IdleCall]
    /\ platformCalls = [p \in Platforms |-> 0]
    /\ github = Null
    /\ aggCalls = [c \in AggCallIds |-> IdleCall]
    /\ enh = IdleCall
    /\ AuxIdle

CallParseRepoUrl ==
    /\ ppc = "ready"
    /\ parsed' = parseRepoUrl(input)
    /\ ppc' = "done"
    /\ UNCHANGED <<input, cache, linkVars, aggVars, enh, auxVars>>

NextParseInput ==
    /\ ppc = "done"
    /\ input' \in ParseInputs
    /\ parsed' = NotCalled
    /\ ppc' = "ready"
    /\ UNCHANGED <<cache, linkVars, aggVars, enh, auxVars>>

ParseNext == CallParseRepoUrl \/ NextParseInput

SpecParse == ParseInit /\ [][ParseNext]_vars

----------------------------------------------------------------------------
(* Claims about parseRepoUrl *)

\* C1: for every owner O and name N made of letters, digits, '-' and '_',
\* parseRepoUrl returns {owner: O, name: N} for each of the four spellings
\* https://github.com/O/N, https://github.com/O/N.git, git@github.com:O/N.git
\* and O/N.
C1_FourSpellings ==
    \A O \in Owners, N \in Names, k \in 1..4 :
        (ppc = "done" /\ input = Str(Spelling(k, O, N)))
            => parsed = [t |-> "object", owner |-> O, name |-> N]

\* the SSH spelling of acme/widgets has been parsed
C1_Witness ==
    /\ ppc = "done"
    /\ input = Str(Spelling(3, acme, widgets))
    /\ parsed = [t |-> "object", owner |-> acme, name |-> widgets]

\* the length of the scheme the input starts with, 0 without one
SchemeLen(s) ==
    IF HasAt(s, 1, L_https) THEN Len(L_https)
    ELSE IF HasAt(s, 1, L_http) THEN Len(L_http)
    ELSE 0

\* the text between the scheme and the first '/' after it
Host(s) == Slice(s, SchemeLen(s) + 1, RunLen(s, SchemeLen(s) + 1, {"/"}))

\* scheme://H/path with a host H that is neither github.com nor www.github.com
ForeignWebUrl(s) ==
    /\ SchemeLen(s) > 0
    /\ Len(Host(s)) > 0
    /\ SchemeLen(s) + Len(Host(s)) + 1 < Len(s)
    /\ Host(s) \notin {L_github_com, L_www \o L_github_com}

\* C18: the web-URL rule matches only the host github.com (or
\* www.github.com): for every input scheme://H/O/N with another host H, also
\* one that ends in or contains 'github.com' or whose path contains
\* 'github.com/', parseRepoUrl returns null
C18_OnlyGithubHost ==
    (ppc = "done" /\ input.t = "string" /\ ForeignWebUrl(input.s)) => parsed = Null

\* the input holds exactly one '/', with text before it and text after it
OneSlashBetweenTexts(s) ==
    /\ Cardinality({i \in 1..Len(s) : s[i] = "/"}) = 1
    /\ s[1] # "/"
    /\ s[Len(s)] # "/"

TextBeforeSlash(s) == SubSeq(s, 1, (CHOOSE i \in 1..Len(s) : s[i] = "/") - 1)

TextAfterSlash(s) == SubSeq(s, (CHOOSE i \in 1..Len(s) : s[i] = "/") + 1, Len(s))

SubstringOf(sub, s) == \E i \in 1..Len(s) : HasAt(s, i, sub)

\* C20: whenever parseRepoUrl returns a RepoRef, owner and name are non-empty
\* and each is a contiguous substring of the input, letter case unchanged
C20_FieldsFromInput ==
    (ppc = "done" /\ parsed \notin {Null, Thrown}) =>
        /\ Len(parsed.owner) > 0
        /\ Len(parsed.name) > 0
        /\ SubstringOf(parsed.owner, input.s)
        /\ SubstringOf(parsed.name, input.s)

\* the SSH spelling of A-1/widgets has been parsed and the owner kept its
\* capital letter
C20_Witness ==
    /\ ppc = "done"
    /\ input = Str(Spelling(3, <<"A","-","1">>, widgets))
    /\ parsed.t = "object"
    /\ parsed.owner = <<"A","-","1">>
    /\ parsed.name = widgets

MatchesNoForm(s) ==
    WebMatch(s) = Null /\ SshMatch(s) = Null /\ BareMatch(s) = Null

\* C2: parseRepoUrl never raises; for 'not a repo url', the empty string,
\* null, undefined, any non-string value and any string that matches none of
\* the three forms it returns null.
C2_NullOnNoMatch ==
    ppc = "done" =>
        /\ parsed # Thrown
        /\ (input.t # "string" => parsed = Null)
        /\ (input \in {Str(<<>>), Str(NotARepoUrl)} => parsed = Null)
        /\ ((input.t = "string" /\ MatchesNoForm(input.s)) => parsed = Null)

\* a non-string, truthy value has been given and null came back
C2_Witness ==
    /\ ppc = "done"
    /\ input = Num(5)
    /\ parsed = Null

----------------------------------------------------------------------------
(* fetchDeploymentLinks *)

ENV_USERNAME == <<"x">>

repo_y == <<"y">>

repo_Y == <<"Y">>

\* the arguments (repoName, owner) of a call; owner = null means ENV.USERNAME
LinkTargets ==
    { [owner |-> Null, name |-> repo_y],
      [owner |-> Str(ENV_USERNAME), name |-> repo_Y] }

\* values of the repo field of a site as the platform clients report it
RepoFields ==
    { Null,
      Str(Spelling(2, ENV_USERNAME, repo_y)),
      Str(Spelling(4, ENV_USERNAME, repo_Y)) }

\* a repository name with a dot in it
y_js == <<"y",".","j","s">>

\* repo fields that name the repository y.js of ENV.USERNAME in each
\* spelling, and one that names its repository y
DottedRepoFields ==
    { Str(Spelling(k, ENV_USERNAME, y_js)) : k \in {1, 2, 4, 6} }
        \cup { Str(Spelling(1, ENV_USERNAME, repo_y)), Null }

MaxSites == 3

\* the i-th site of a platform listing; the first site of a listing has an
\* ssl_url, the others have none
Site(p, i, r) ==
    [ name |-> Str(<<p, "site", i>>),
      url |-> Str(<<p, "url", i>>),
      ssl_url |-> IF i = 1 THEN Str(<<p, "ssl", i>>) ELSE Null,
      framework |-> Str(<<p, "fw", i>>),
      repo |-> r ]

SiteLists(p) ==
    UNION { { [i \in 1..n |-> Site(p, i, f[i])] : f \in [1..n -> RepoFields] }
            : n \in 0..MaxSites }

\* the error object a platform client returns instead of a list
PlatformError(configured) ==
    [t |-> "object", configured |-> configured, message |-> "error"]

\* what a platform client may return
PlatformResponses(p) ==
    { [t |-> "array", items |-> l] : l \in SiteLists(p) }
    \cup { PlatformError(FALSE), PlatformError(TRUE) }

NumSites(resp) == IF resp.t = "array" THEN Len(resp.items) ELSE 0

\* the answers of the three platforms, with at most MaxSites sites in all
Upstreams ==
    { [netlify |-> n, vercel |-> v, render |-> r] :
        <<n, v, r>> \in
          { x \in PlatformResponses("netlify") \X PlatformResponses("vercel")
                    \X PlatformResponses("render") :
              NumSites(x[1]) + NumSites(x[2]) + NumSites(x[3]) <= MaxSites } }

\* Array.isArray(sites) ? sites : []
ArrayOrEmpty(resp) == IF resp.t = "array" THEN resp.items ELSE <<>>

\* the object put in the cache (fetched_at, a timestamp nobody reads, is left out)
PlatformsData(netlifySites, vercelSites, renderSites) ==
    [ t |-> "object",
      netlify |-> ArrayOrEmpty(netlifySites),
      vercel |-> ArrayOrEmpty(vercelSites),
      render |-> ArrayOrEmpty(renderSites) ]

\* parseRepoUrl of the repo fields the platforms report, computed once
ParsedRepos == [r \in (RepoFields \cup DottedRepoFields) \ {Null} |-> parseRepoUrl(r)] @@ <<>>

\* parseRepoUrl(site.repo)
ParseSiteRepo(repo) == ParsedRepos[repo]

\* repoInfo && repoInfo.owner === repoOwner && repoInfo.name === repoName
SameRepo(repoInfo, repoOwner, repoName) ==
    /\ repoInfo # Null
    /\ repoInfo.owner = repoOwner
    /\ repoInfo.name = repoName

\* the comparison of the name left out
SiteMatchesOwnerOnly(site, repoOwner, repoName) ==
    /\ Truthy(site.repo)
    /\ LET p == ParseSiteRepo(site.repo)
       IN  /\ p # Null
           /\ p.owner = repoOwner

\* site.repo is truthy and parses to exactly (repoOwner, repoName)
SiteMatches(site, repoOwner, repoName) ==
    /\ Truthy(site.repo)
    /\ SameRepo(ParseSiteRepo(site.repo), repoOwner, repoName)

\* the deployment entry built for a matching site of platform p
Slot(p, site) ==
    CASE p = "netlify" ->
            [ t |-> "object", name |-> site.name,
              url |-> IF Truthy(site.ssl_url) THEN site.ssl_url ELSE site.url,
              repo |-> site.repo ]
      [] p = "vercel" ->
            [ t |-> "object", name |-> site.name, url |-> site.url,
              repo |-> site.repo, framework |-> site.framework ]
      [] OTHER ->
            [ t |-> "object", name |-> site.name, url |-> site.url,
              repo |-> site.repo ]

\* the loop without its break: the last matching site wins
MatchPlatformNoBreak(p, sites, repoOwner, repoName) ==
    LET hits == {i \in 1..Len(sites) : SiteMatches(sites[i], repoOwner, repoName)}
    IN  IF hits = {} THEN Null
        ELSE Slot(p, sites[CHOOSE i \in hits : \A j \in hits : j <= i])

\* for (const site of sites) { if (...) { deployments[p] = {...}; break; } }
MatchPlatform(p, sites, repoOwner, repoName) ==
    LET hits == {i \in 1..Len(sites) : SiteMatches(sites[i], repoOwner, repoName)}
    IN  IF hits = {} THEN Null
        ELSE Slot(p, sites[CHOOSE i \in hits : \A j \in hits : i <= j])

\* hasDeployments ? deployments : null, without the test
CollapseNever(deployments) == deployments

\* hasDeployments ? deployments : null
Collapse(deployments) ==
    IF \/ Truthy(deployments.netlify)
       \/ Truthy(deployments.vercel)
       \/ Truthy(deployments.render)
    THEN deployments
    ELSE Null

\* the matching part of fetchDeploymentLinks, on the platform data in hand
MatchDeployments(platformsData, repoOwner, repoName) ==
    Collapse([ t |-> "object",
               netlify |-> MatchPlatform("netlify", platformsData.netlify, repoOwner, repoName),
               vercel |-> MatchPlatform("vercel", platformsData.vercel, repoOwner, repoName),
               render |-> MatchPlatform("render", platformsData.render, repoOwner, repoName) ])

\* owner || ENV.USERNAME
RepoOwner(owner) == IF Truthy(owner) THEN owner.s ELSE ENV_USERNAME

\* the cache is not read: the platform clients are called by every call
LinkBeginAlwaysFetch(c, target) ==
    /\ linkCalls[c].pc = "idle"
    /\ linkCalls' = [linkCalls EXCEPT ![c] =
            [ pc |-> "awaitPlatforms", owner |-> target.owner, name |-> target.name ]]
    /\ platformCalls' = [p \in Platforms |-> platformCalls[p] + 1]

\* fetchDeploymentLinks up to its only await: on a cache hit the call matches
\* and returns at once; on a miss the three platform clients are called and
\* the call suspends on Promise.all
LinkBegin(c, target) ==
    /\ linkCalls[c].pc = "idle"
    /\ IF Truthy(cache["deploymentPlatforms"])
       THEN /\ linkCalls' = [linkCalls EXCEPT ![c] =
                    [ pc |-> "done", owner |-> target.owner, name |-> target.name,
                      data |-> cache["deploymentPlatforms"],
                      result |-> MatchDeployments(cache["deploymentPlatforms"],
                                                  RepoOwner(target.owner), target.name) ]]
            /\ UNCHANGED platformCalls
       ELSE /\ linkCalls' = [linkCalls EXCEPT ![c] =
                    [ pc |-> "awaitPlatforms", owner |-> target.owner, name |-> target.name ]]
            /\ platformCalls' = [p \in Platforms |-> platformCalls[p] + 1]

\* a call of fetchDeploymentLinks(repoName, owner); the ids number the calls in
\* the order they are made
LinkStart(c, target) ==
    /\ \A d \in LinkCallIds : d < c => linkCalls[d].pc # "idle"
    /\ LinkBegin(c, target)
    /\ UNCHANGED <<cache, upstream, parseVars, aggVars, enh, auxVars>>

\* the three platform clients have answered: the data is cached, matched and
\* the result returned
LinkEnd(c) ==
    /\ linkCalls[c].pc = "awaitPlatforms"
    /\ LET platformsData == PlatformsData(upstream["netlify"], upstream["vercel"],
                                          upstream["render"])
       IN  /\ cache' = [cache EXCEPT !["deploymentPlatforms"] = platformsData]
           /\ linkCalls' = [linkCalls EXCEPT ![c] =
                    [ pc |-> "done", owner |-> linkCalls[c].owner, name |-> linkCalls[c].name,
                      data |-> platformsData,
                      result |-> MatchDeployments(platformsData,
                                                  RepoOwner(linkCalls[c].owner),
                                                  linkCalls[c].name) ]]

\* the continuation of a call of fetchDeploymentLinks
LinkResume(c) ==
    /\ LinkEnd(c)
    /\ UNCHANGED <<upstream, platformCalls, parseVars, aggVars, enh, auxVars>>

LinksInit ==
    /\ input = Null
    /\ parsed = NotCalled
    /\ ppc = "idle"
    /\ cache = EmptyCache
    /\ upstream \in Upstreams
    /\ linkCalls = [c \in LinkCallIds |-> IdleCall]
    /\ platformCalls = [p \in Platforms |-> 0]
    /\ github = Null
    /\ aggCalls = [c \in AggCallIds |-> IdleCall]
    /\ enh = IdleCall
    /\ AuxIdle

LinksNext ==
    \/ \E c \in LinkCallIds, target \in LinkTargets : LinkStart(c, target)
    \/ \E c \in LinkCallIds : LinkResume(c)

SpecLinks == LinksInit /\ [][LinksNext]_vars

----------------------------------------------------------------------------
(* Claims about fetchDeploymentLinks *)

LinkDone(c) == linkCalls[c].pc = "done"

\* the target (owner, name) of call c
TargetOwner(c) == RepoOwner(linkCalls[c].owner)

TargetName(c) == linkCalls[c].name

\* parseRepoUrl of each repo field a platform can report
ParsedRepoField == [r \in RepoFields |-> parseRepoUrl(r)] @@ <<>>

\* the repo field of the site is non-null and parses to exactly the target of c
EntryMatches(c, site) ==
    /\ site.repo # Null
    /\ ParsedRepoField[site.repo] =
         [t |-> "object", owner |-> TargetOwner(c), name |-> TargetName(c)]

\* the slot of platform p in the value returned by call c
SlotOf(c, p) ==
    IF linkCalls[c].result = Null THEN Null ELSE linkCalls[c].result[p]

\* a platform whose client answered with an error object is stored as an
\* empty list by the call that fetched, and its slot is null in every answer
ErrorStoredAsEmpty ==
    \A c \in LinkCallIds : \A p \in Platforms :
        (LinkDone(c) /\ upstream[p].t # "array") =>
            /\ cache["deploymentPlatforms"] # Undefined
            /\ cache["deploymentPlatforms"][p] = <<>>
            /\ SlotOf(c, p) = Null

\* while the entry is in the cache no step calls a platform client
NoCallWhileStored ==
    cache["deploymentPlatforms"] # Undefined => platformCalls' = platformCalls

\* C27: when a platform client returns an error object instead of a list,
\* fetchDeploymentLinks still writes the 'deploymentPlatforms' entry, with
\* that platform stored as an empty list; while the entry is there, later
\* calls never call that platform again and report null for its slot for
\* every repository
C27_ErrorCachedAsEmpty ==
    /\ []ErrorStoredAsEmpty
    /\ [][NoCallWhileStored]_vars

\* netlify answered with an error object and vercel with a site of the
\* target: two calls are done, netlify was called once, it is stored as an
\* empty list and its slot is null in an answer that has a vercel slot
C27_Witness ==
    /\ \A c \in LinkCallIds : LinkDone(c)
    /\ upstream["netlify"].t # "array"
    /\ platformCalls["netlify"] = 1
    /\ cache["deploymentPlatforms"]["netlify"] = <<>>
    /\ \E c \in LinkCallIds :
          /\ linkCalls[c].result # Null
          /\ linkCalls[c].result["netlify"] = Null
          /\ linkCalls[c].result["vercel"] # Null

\* C4: for each platform list taken separately, the slot of that platform is
\* built from the first entry, in the list's order, whose repo field is
\* non-null and parses to exactly the target; later entries are not
\* considered, null repos are skipped, and without a match the slot is null.
C4_FirstMatchPerPlatform ==
    \A c \in LinkCallIds : LinkDone(c) =>
        \A p \in Platforms :
            LET sites == linkCalls[c].data[p]
            IN  IF \E i \in 1..Len(sites) : EntryMatches(c, sites[i])
                THEN \E i \in 1..Len(sites) :
                        /\ EntryMatches(c, sites[i])
                        /\ \A j \in 1..(i - 1) : ~EntryMatches(c, sites[j])
                        /\ SlotOf(c, p) # Null
                        /\ SlotOf(c, p).name = sites[i].name
                        /\ SlotOf(c, p).repo = sites[i].repo
                        /\ SlotOf(c, p).url \in {sites[i].url, sites[i].ssl_url}
                ELSE SlotOf(c, p) = Null

\* a listing whose first entry has a null repo and whose second and third
\* entries both match: the slot is the second entry
C4_Witness ==
    \E c \in LinkCallIds :
        /\ LinkDone(c)
        /\ Len(linkCalls[c].data.netlify) = 3
        /\ linkCalls[c].data.netlify[1].repo = Null
        /\ EntryMatches(c, linkCalls[c].data.netlify[2])
        /\ EntryMatches(c, linkCalls[c].data.netlify[3])
        /\ SlotOf(c, "netlify") # Null
        /\ SlotOf(c, "netlify").name = linkCalls[c].data.netlify[2].name

\* the (platform, position) pairs of the entries that match the target of c
MatchingEntries(c) ==
    { <<p, i>> \in Platforms \X (1..MaxSites) :
        /\ i <= Len(linkCalls[c].data[p])
        /\ EntryMatches(c, linkCalls[c].data[p][i]) }

\* C5: fetchDeploymentLinks returns null (not an object of three nulls) when
\* no entry on any platform parses to the target, and every non-null result
\* has at least one non-null platform slot.
C5_NullWhenNoMatch ==
    \A c \in LinkCallIds : LinkDone(c) =>
        /\ (MatchingEntries(c) = {} => linkCalls[c].result = Null)
        /\ (linkCalls[c].result # Null =>
                \E p \in Platforms : linkCalls[c].result[p] # Null)

\* a call has returned null although the platforms list sites with a repo
C5_Witness ==
    \E c \in LinkCallIds :
        /\ LinkDone(c)
        /\ linkCalls[c].result = Null
        /\ \E p \in Platforms : \E i \in 1..Len(linkCalls[c].data[p]) :
              linkCalls[c].data[p][i].repo # Null

\* C6: when exactly one entry across the three platform lists parses to the
\* target, the result has exactly one non-null slot, that of the platform
\* holding the entry, and the other two slots are null.
C6_ExactlyOneSlot ==
    \A c \in LinkCallIds : LinkDone(c) =>
        LET M == MatchingEntries(c)
        IN  Cardinality(M) = 1 =>
                LET p == (CHOOSE e \in M : TRUE)[1]
                IN  /\ linkCalls[c].result # Null
                    /\ linkCalls[c].result[p] # Null
                    /\ \A q \in Platforms \ {p} : linkCalls[c].result[q] = Null

\* exactly one entry matches, on vercel, next to a same-owner entry of another
\* repository on netlify
C6_Witness ==
    \E c \in LinkCallIds :
        /\ LinkDone(c)
        /\ Cardinality(MatchingEntries(c)) = 1
        /\ \E i \in 1..MaxSites : <<"vercel", i>> \in MatchingEntries(c)
        /\ Len(linkCalls[c].data.netlify) >= 1
        /\ linkCalls[c].data.netlify[1].repo # Null
        /\ linkCalls[c].result # Null
        /\ linkCalls[c].result.vercel # Null

----------------------------------------------------------------------------
(* JavaScript objects as the code uses them: own string keys in property   *)
(* order (array-index keys first, in ascending numeric order, then the     *)
(* other keys in insertion order); an object is the sequence of its        *)
(* entries [k, v] in that order.                                           *)

Digits == <<"0","1","2","3","4","5","6","7","8","9">>

\* the characters of package names in ascending order of UTF-16 code unit
CodeOrder ==
    <<"-","0","1","2","3","4","5","6","7","8","9","@",
      "a","b","c","d","e","f","g","h","i","j","k","l","m",
      "n","o","p","q","r","s","t","u","v","w","x","y","z">>

CharCode(ch) == CHOOSE i \in 1..Len(CodeOrder) : CodeOrder[i] = ch

DigitVal(ch) == (CHOOSE i \in 1..10 : Digits[i] = ch) - 1

IsDigit(ch) == \E i \in 1..10 : Digits[i] = ch

RECURSIVE NumVal(_)
NumVal(k) ==
    IF Len(k) = 0 THEN 0
    ELSE 10 * NumVal(SubSeq(k, 1, Len(k) - 1)) + DigitVal(k[Len(k)])

MaxArrayIndexDigits == 9

\* the key is a canonical numeric string (an array index)
IsArrayIndex(k) ==
    /\ Len(k) >= 1
    /\ Len(k) <= MaxArrayIndexDigits
    /\ \A i \in 1..Len(k) : IsDigit(k[i])
    /\ (Len(k) = 1 \/ k[1] # "0")

\* the default comparison of Array.prototype.sort: by code units
LexLess(a, b) ==
    \/ /\ Len(a) < Len(b)
       /\ \A i \in 1..Len(a) : a[i] = b[i]
    \/ \E i \in 1..Len(a) :
          /\ i <= Len(b)
          /\ \A j \in 1..(i - 1) : a[j] = b[j]
          /\ CharCode(a[i]) < CharCode(b[i])

Has(obj, k) == \E i \in 1..Len(obj) : obj[i].k = k

Get(obj, k) ==
    IF Has(obj, k) THEN obj[CHOOSE i \in 1..Len(obj) : obj[i].k = k].v ELSE Undefined

Keys(obj) == [i \in 1..Len(obj) |-> obj[i].k]

\* position at which a new key is created
InsertPos(obj, k) ==
    IF IsArrayIndex(k)
    THEN Cardinality({i \in 1..Len(obj) :
                        IsArrayIndex(obj[i].k) /\ NumVal(obj[i].k) < NumVal(k)}) + 1
    ELSE Len(obj) + 1

\* obj[k] = v
Set(obj, k, v) ==
    IF Has(obj, k)
    THEN [i \in 1..Len(obj) |-> IF obj[i].k = k THEN [k |-> k, v |-> v] ELSE obj[i]]
    ELSE LET at == InsertPos(obj, k)
         IN  SubSeq(obj, 1, at - 1) \o <<[k |-> k, v |-> v]>> \o SubSeq(obj, at, Len(obj))

\* the object written { k1: v1, k2: v2, ... } (also what JSON.parse builds)
RECURSIVE FromPairs(_)
FromPairs(pairs) ==
    IF Len(pairs) = 0 THEN <<>>
    ELSE Set(FromPairs(SubSeq(pairs, 1, Len(pairs) - 1)),
             pairs[Len(pairs)][1], pairs[Len(pairs)][2])

\* keys.sort()
RECURSIVE SortKeys(_)
SortKeys(S) ==
    IF S = {} THEN <<>>
    ELSE LET least == CHOOSE a \in S : \A b \in S \ {a} : LexLess(a, b)
         IN  <<least>> \o SortKeys(S \ {least})

RECURSIVE ReduceInto(_, _, _)
ReduceInto(sortedObj, keys, obj) ==
    IF Len(keys) = 0 THEN sortedObj
    ELSE ReduceInto(Set(sortedObj, keys[1], Get(obj, keys[1])), Tail(keys), obj)

\* the object returned as it is, its keys in the order of insertion
sortObjectKeysUnsorted(obj) == obj

\* Object.keys(obj).sort().reduce((sortedObj, key) => { sortedObj[key] = obj[key]; ... }, {})
sortObjectKeys(obj) ==
    ReduceInto(<<>>, SortKeys({obj[i].k : i \in 1..Len(obj)}), obj)

----------------------------------------------------------------------------
(* Versions.  A version specifier or version string is a string value      *)
(* [t |-> "string", pre, nums]: pre is the text before the first digit     *)
(* ("^", "~", ">=", "latest", "*", ...) and nums the dot-separated numbers  *)
(* that follow it (none for "latest" and "*").                             *)

Spec(pre, nums) == [t |-> "string", pre |-> pre, nums |-> nums]

\* the version string "major.minor.patch"
VersionString(major, minor, patch) == Spec("", <<major, minor, patch>>)

\* semver.coerce: the first run of up to three numbers, missing minor and
\* patch filled with 0; null when the text holds no number
coerce(version) ==
    IF version.t # "string" \/ Len(version.nums) = 0 THEN Null
    ELSE LET n == version.nums
             major == n[1]
             minor == IF Len(n) >= 2 THEN n[2] ELSE 0
             patch == IF Len(n) >= 3 THEN n[3] ELSE 0
         IN  [ t |-> "semver", major |-> major, minor |-> minor, patch |-> patch,
               version |-> VersionString(major, minor, patch) ]

\* semver.lt on two SemVer objects: major, then minor, then patch
lt(a, b) ==
    \/ a.major < b.major
    \/ a.major = b.major /\ a.minor < b.minor
    \/ a.major = b.major /\ a.minor = b.minor /\ a.patch < b.patch

\* semver.gt
gt(a, b) == lt(b, a)

\* `${min} - ${max}`
RangeString(min, max) == [t |-> "string", pre |-> "", nums |-> min.nums, to |-> max.nums]

\* the minmax branch without the test min === max
PolicyValueAlwaysRange(versionType, versionData) ==
    CASE versionType = "min" -> versionData.min
      [] versionType = "max" -> versionData.max
      [] OTHER -> RangeString(versionData.min, versionData.max)

\* the value aggregated[name] receives from its running {min, max}
PolicyValue(versionType, versionData) ==
    CASE versionType = "min" -> versionData.min
      [] versionType = "max" -> versionData.max
      [] OTHER -> IF versionData.min = versionData.max
                  THEN versionData.min
                  ELSE RangeString(versionData.min, versionData.max)

\* the first loop without its two comparisons: the record keeps the first
\* version seen
FoldEntryKeepFirst(r, name, version) ==
    LET cleanedCurrentVersion == coerce(version)
        temp == r.temp
    IN  IF r.t = "throw" THEN Thrown
        ELSE IF cleanedCurrentVersion = Null THEN Thrown
        ELSE IF ~Has(temp, name)
        THEN [ t |-> "ok",
               temp |-> Set(temp, name, [ min |-> cleanedCurrentVersion.version,
                                          max |-> cleanedCurrentVersion.version ]) ]
        ELSE r

\* first loop of aggregateVersion, one entry [name, version] of current:
\* the new tempData[depType], or Thrown when the code raises a TypeError
\* (cleanedCurrentVersion is null: reading .version of null, or semver.lt
\* given null)
FoldEntry(r, name, version) ==
    LET cleanedCurrentVersion == coerce(version)
        temp == r.temp
    IN  IF r.t = "throw" THEN Thrown
        ELSE IF ~Has(temp, name)
        THEN IF cleanedCurrentVersion = Null THEN Thrown
             ELSE [ t |-> "ok",
                    temp |-> Set(temp, name, [ min |-> cleanedCurrentVersion.version,
                                               max |-> cleanedCurrentVersion.version ]) ]
        ELSE IF cleanedCurrentVersion = Null THEN Thrown
        ELSE LET cleanedMinVersion == coerce(Get(temp, name).min)
                 cleanedMaxVersion == coerce(Get(temp, name).max)
                 newMin == IF lt(cleanedCurrentVersion, cleanedMinVersion)
                           THEN cleanedCurrentVersion.version ELSE Get(temp, name).min
                 newMax == IF gt(cleanedCurrentVersion, cleanedMaxVersion)
                           THEN cleanedCurrentVersion.version ELSE Get(temp, name).max
             IN  [t |-> "ok", temp |-> Set(temp, name, [min |-> newMin, max |-> newMax])]

RECURSIVE FoldEntries(_, _)
FoldEntries(r, entries) ==
    IF Len(entries) = 0 THEN r
    ELSE FoldEntries(FoldEntry(r, entries[1].k, entries[1].v), Tail(entries))

\* second loop of aggregateVersion
RECURSIVE EmitEntries(_, _, _)
EmitEntries(aggregated, entries, versionType) ==
    IF Len(entries) = 0 THEN aggregated
    ELSE EmitEntries(Set(aggregated, entries[1].k, PolicyValue(versionType, entries[1].v)),
                     Tail(entries), versionType)

\* a JSON object value with the given entries
Object(entries) == [t |-> "object", e |-> entries]

\* Object.entries(current || {})
EntriesOrEmpty(current) == IF Truthy(current) THEN current.e ELSE <<>>

\* aggregateVersion(aggregated, current, versionType, depType, tempData):
\* the new aggregated and tempData[depType], or Thrown
aggregateVersion(aggregated, current, versionType, temp) ==
    LET folded == FoldEntries([t |-> "ok", temp |-> temp], EntriesOrEmpty(current))
    IN  IF folded.t = "throw" THEN Thrown
        ELSE [ t |-> "ok",
               aggregated |-> EmitEntries(aggregated, folded.temp, versionType),
               temp |-> folded.temp ]

----------------------------------------------------------------------------
(* fetchAggregatedData *)

lodash == <<"l","o","d","a","s","h">>

axios == <<"a","x","i","o","s">>

nine == <<"9">>

ten == <<"1","0">>

PackageNames == {lodash, axios, nine, ten}

VersionTypes == {"min", "max", "minmax"}

\* a parsed package.json
PackageJson(dependencies, devDependencies) ==
    [t |-> "json", dependencies |-> dependencies, devDependencies |-> devDependencies]

\* the package.json files of the repositories (null: the repository has none)
LodashCaret == PackageJson(Object(FromPairs(<< <<lodash, Spec("^", <<4, 17, 0>>)>> >>)), Undefined)

LodashTilde ==
    PackageJson(Object(FromPairs(<< <<lodash, Spec("~", <<4, 17, 21>>)>> >>)),
                Object(FromPairs(<< <<axios, Spec("~", <<1, 2>>)>> >>)))

LodashOld ==
    PackageJson(Object(FromPairs(<< <<lodash, Spec("", <<4, 16, 0>>)>>,
                                    <<axios, Spec(">=", <<0, 9, 1>>)>> >>)),
                Undefined)

AxiosLatest == PackageJson(Object(FromPairs(<< <<axios, Spec("latest", <<>>)>> >>)), Undefined)

Numbered ==
    PackageJson(Object(FromPairs(<< <<ten, Spec("", <<2, 0, 0>>)>>,
                                    <<nine, Spec("", <<1, 0, 0>>)>>,
                                    <<axios, Spec("^", <<0, 21>>)>> >>)),
                Object(FromPairs(<< <<lodash, Spec("^", <<3, 0, 0>>)>> >>)))

\* the repositories, by name
RepoNames == {"caret", "tilde", "old", "latest", "numbered", "bare"}

\* getPackageDetails(repo.name, owner): the parsed package.json of the
\* repository, null when it has none; JSON.parse raises a SyntaxError on the
\* file of the repository "broken"
getPackageDetails(repoName) ==
    CASE repoName = "caret" -> LodashCaret
      [] repoName = "broken" -> Thrown
      [] repoName = "tilde" -> LodashTilde
      [] repoName = "old" -> LodashOld
      [] repoName = "latest" -> AxiosLatest
      [] repoName = "numbered" -> Numbered
      [] OTHER -> Null

MaxRepos == 3

RepoLists == UNION { [1..n -> RepoNames] : n \in 0..MaxRepos }

\* what getRepositories("all") answers: the list, or null (403, transport error)
Listings == { [t |-> "array", items |-> l] : l \in RepoLists } \cup {Null}

\* `packageData-${versionType}`
PackageDataKey(versionType) ==
    CASE versionType = "min" -> "packageData-min"
      [] versionType = "max" -> "packageData-max"
      [] OTHER -> "packageData-minmax"

EmptyAggregate == [t |-> "object", dependencies |-> <<>>, devDependencies |-> <<>>]

\* the end of fetchAggregatedData: both maps sorted are stored and returned
AggFinish(c, sorted) ==
    /\ cache' = [cache EXCEPT ![PackageDataKey(aggCalls[c].versionType)] = sorted]
    /\ aggCalls' = [aggCalls EXCEPT ![c] =
            [pc |-> "done", versionType |-> aggCalls[c].versionType, result |-> sorted]]

\* the catch block: the error is logged and the function returns undefined
AggCatch(c) ==
    /\ aggCalls' = [aggCalls EXCEPT ![c] =
            [pc |-> "done", versionType |-> aggCalls[c].versionType, result |-> Undefined]]
    /\ UNCHANGED cache

\* fetchAggregatedData(versionType) up to its first await; the ids number the
\* calls in the order they are made
AggBegin(c, versionType) ==
    /\ aggCalls[c].pc = "idle"
    /\ \A d \in AggCallIds : d < c => aggCalls[d].pc # "idle"
    /\ LET key == PackageDataKey(versionType)
       IN  IF Truthy(cache[key])
           THEN aggCalls' = [aggCalls EXCEPT ![c] =
                    [pc |-> "done", versionType |-> versionType, result |-> cache[key]]]
           ELSE aggCalls' = [aggCalls EXCEPT ![c] =
                    [pc |-> "awaitRepos", versionType |-> versionType]]
    /\ UNCHANGED cache

\* a call of fetchAggregatedData(versionType)
AggStart(c, versionType) ==
    /\ AggBegin(c, versionType)
    /\ UNCHANGED <<github, parseVars, linkVars, enh, auxVars>>

\* one turn of the loop: packageDetails of a repository is folded into both
\* maps; a raise in either fold ends the loop
FoldRepo(acc, packageDetails, versionType) ==
    IF acc.t = "throw" \/ packageDetails = Null THEN acc
    ELSE IF packageDetails = Thrown THEN Thrown
    ELSE LET deps == aggregateVersion(acc.aggregatedData.dependencies,
                                      packageDetails.dependencies,
                                      versionType, acc.tempData.dependencies)
             dev == aggregateVersion(acc.aggregatedData.devDependencies,
                                     packageDetails.devDependencies,
                                     versionType, acc.tempData.devDependencies)
         IN  IF deps.t = "throw" \/ dev.t = "throw" THEN Thrown
             ELSE [ t |-> "ok",
                    aggregatedData |-> [ t |-> "object", dependencies |-> deps.aggregated,
                                         devDependencies |-> dev.aggregated ],
                    tempData |-> [ t |-> "object", dependencies |-> deps.temp,
                                   devDependencies |-> dev.temp ] ]

\* for (const repo of repos) { ... }
RECURSIVE FoldRepos(_, _, _)
FoldRepos(acc, repos, versionType) ==
    IF Len(repos) = 0 THEN acc
    ELSE FoldRepos(FoldRepo(acc, getPackageDetails(Head(repos)), versionType),
                   Tail(repos), versionType)

\* the loop over repos and the sort of both maps: the sorted aggregate, or
\* Thrown when a fold raises
LoopAndSort(repos, versionType) ==
    LET folded == FoldRepos([ t |-> "ok", aggregatedData |-> EmptyAggregate,
                              tempData |-> EmptyAggregate ], repos, versionType)
    IN  IF folded.t = "throw" THEN Thrown
        ELSE [ t |-> "object",
               dependencies |-> sortObjectKeys(folded.aggregatedData.dependencies),
               devDependencies |-> sortObjectKeys(folded.aggregatedData.devDependencies) ]

\* LoopAndSort of every listing under every policy, computed once (@@ makes
\* the table an explicit function)
LoopAndSortOf ==
    [repos \in RepoLists, versionType \in VersionTypes |-> LoopAndSort(repos, versionType)]
        @@ <<>>

\* getRepositories has answered; the loop starts (for...of over null raises)
AggListed(c) ==
    /\ aggCalls[c].pc = "awaitRepos"
    /\ IF github.t # "array" THEN AggCatch(c)
       ELSE IF Len(github.items) = 0 THEN AggFinish(c, LoopAndSortOf[<<>>, aggCalls[c].versionType])
       ELSE /\ aggCalls' = [aggCalls EXCEPT ![c] =
                    [ pc |-> "awaitDetails", versionType |-> aggCalls[c].versionType,
                      repos |-> github.items ]]
            /\ UNCHANGED cache

AggRepos(c) ==
    /\ AggListed(c)
    /\ UNCHANGED <<github, parseVars, linkVars, enh, auxVars>>

\* the loop over the repositories, every getPackageDetails answered in turn,
\* then the end of the function; the turns of the loop read and write only
\* the aggregate of this call, so the loop is taken in one step
AggLoop(c) ==
    /\ aggCalls[c].pc = "awaitDetails"
    /\ LET sorted == LoopAndSortOf[aggCalls[c].repos, aggCalls[c].versionType]
       IN  IF sorted = Thrown THEN AggCatch(c)
           ELSE AggFinish(c, sorted)

AggDetails(c) ==
    /\ AggLoop(c)
    /\ UNCHANGED <<github, parseVars, linkVars, enh, auxVars>>

AggInit ==
    /\ input = Null
    /\ parsed = NotCalled
    /\ ppc = "idle"
    /\ cache = EmptyCache
    /\ upstream = [p \in Platforms |-> NoListing]
    /\ linkCalls = [c \in LinkCallIds |-> IdleCall]
    /\ platformCalls = [p \in Platforms |-> 0]
    /\ github \in Listings
    /\ aggCalls = [c \in AggCallIds |-> IdleCall]
    /\ enh = IdleCall
    /\ AuxIdle

AggNext ==
    \/ \E c \in AggCallIds, versionType \in VersionTypes : AggStart(c, versionType)
    \/ \E c \in AggCallIds : AggRepos(c)
    \/ \E c \in AggCallIds : AggDetails(c)

SpecAgg == AggInit /\ [][AggNext]_vars

----------------------------------------------------------------------------
(* Claims about fetchAggregatedData *)

AggDone(c) == aggCalls[c].pc = "done"

DepKinds == {"dependencies", "devDependencies"}

\* the specifiers declared for a package, in one kind, by the repositories
\* of the listing
Declared(kind, name) ==
    { Get(getPackageDetails(github.items[i])[kind].e, name) :
        i \in { j \in 1..Len(github.items) :
                  /\ getPackageDetails(github.items[j]) # Null
                  /\ getPackageDetails(github.items[j])[kind] # Undefined
                  /\ Has(getPackageDetails(github.items[j])[kind].e, name) } }

Coerces(version) == Len(version.nums) >= 1

\* the number triple a specifier coerces to
Triple(version) ==
    << version.nums[1],
       IF Len(version.nums) >= 2 THEN version.nums[2] ELSE 0,
       IF Len(version.nums) >= 3 THEN version.nums[3] ELSE 0 >>

\* semantic-version order on triples
TripleLeq(a, b) ==
    \/ a[1] < b[1]
    \/ a[1] = b[1] /\ a[2] < b[2]
    \/ a[1] = b[1] /\ a[2] = b[2] /\ a[3] <= b[3]

Least(S) == CHOOSE a \in S : \A b \in S : TripleLeq(a, b)

Greatest(S) == CHOOSE a \in S : \A b \in S : TripleLeq(b, a)

\* the value a policy must give for the set S of coerced versions
Expected(versionType, S) ==
    LET lo == Least(S)
        hi == Greatest(S)
    IN  CASE versionType = "min" -> VersionString(lo[1], lo[2], lo[3])
          [] versionType = "max" -> VersionString(hi[1], hi[2], hi[3])
          [] OTHER -> IF lo = hi THEN VersionString(lo[1], lo[2], lo[3])
                      ELSE [ t |-> "string", pre |-> "", nums |-> lo, to |-> hi ]

\* every specifier of every repository of the listing coerces
AllCoerce ==
    \A kind \in DepKinds, name \in PackageNames :
        \A v \in Declared(kind, name) : Coerces(v)

\* the result of call c is the fold of the specifiers that coerce
IsFoldOfCoercible(c) ==
    /\ aggCalls[c].result # Undefined
    /\ \A kind \in DepKinds, name \in PackageNames :
          LET S == { Triple(v) : v \in { w \in Declared(kind, name) : Coerces(w) } }
          IN  IF S = {} THEN ~Has(aggCalls[c].result[kind], name)
              ELSE Get(aggCalls[c].result[kind], name)
                     = Expected(aggCalls[c].versionType, S)

LodashTrio == [t |-> "array", items |-> <<"caret", "tilde", "old">>]

\* C3: when every version specifier coerces, the aggregated value of each
\* package is the least coerced version (min), the greatest (max), or, under
\* minmax, the least alone when least = greatest and 'least - greatest'
\* otherwise; lodash declared as ^4.17.0, ~4.17.21 and 4.16.0 gives 4.17.21
\* (max), 4.16.0 (min) and '4.16.0 - 4.17.21' (minmax).
C3_PolicyValues ==
    \A c \in AggCallIds :
        (AggDone(c) /\ github # Null /\ AllCoerce) =>
            /\ IsFoldOfCoercible(c)
            /\ github = LodashTrio =>
                 Get(aggCalls[c].result.dependencies, lodash) =
                    CASE aggCalls[c].versionType = "min" -> VersionString(4, 16, 0)
                      [] aggCalls[c].versionType = "max" -> VersionString(4, 17, 21)
                      [] OTHER -> [ t |-> "string", pre |-> "",
                                    nums |-> <<4, 16, 0>>, to |-> <<4, 17, 21>> ]

\* the three lodash declarations aggregated under minmax give a range, and
\* axios, seen once as a dev dependency, gives its one version
C3_Witness ==
    \E c \in AggCallIds :
        /\ AggDone(c)
        /\ github = LodashTrio
        /\ aggCalls[c].versionType = "minmax"
        /\ Get(aggCalls[c].result.dependencies, lodash)
             = [t |-> "string", pre |-> "", nums |-> <<4, 16, 0>>, to |-> <<4, 17, 21>>]
        /\ Get(aggCalls[c].result.devDependencies, axios) = VersionString(1, 2, 0)

\* C9: a specifier that cannot be coerced is skipped silently: the
\* aggregation completes and returns the fold of all the other specifiers.
C9_SkipsUncoercible ==
    \A c \in AggCallIds :
        (AggDone(c) /\ github # Null) => IsFoldOfCoercible(c)

\* the lists that hold the same repositories as repos, in every order
Reorderings(repos) ==
    { [i \in 1..Len(repos) |-> repos[f[i]]] :
        f \in { g \in [1..Len(repos) -> 1..Len(repos)] :
                  \A i, j \in 1..Len(repos) : g[i] = g[j] => i = j } }

\* C29: the aggregated output does not depend on the order in which the
\* repositories are processed: for every policy and every permutation of
\* the same list of repositories whose specifiers all coerce,
\* fetchAggregatedData computed on an empty cache returns the same
\* dependencies and devDependencies maps, with the same key order
C29_OrderIndependent ==
    \A c \in AggCallIds :
        (AggDone(c) /\ github # Null /\ AllCoerce) =>
            /\ aggCalls[c].result # Undefined
            /\ \A repos \in Reorderings(github.items) :
                  LoopAndSortOf[repos, aggCalls[c].versionType] = aggCalls[c].result

\* three repositories that declare lodash, axios, 9 and 10 in different
\* orders have been aggregated
C29_Witness ==
    \E c \in AggCallIds :
        /\ AggDone(c)
        /\ github = [t |-> "array", items |-> <<"caret", "numbered", "old">>]
        /\ aggCalls[c].versionType = "minmax"
        /\ Keys(aggCalls[c].result.dependencies) = <<nine, ten, axios, lodash>>
        /\ Get(aggCalls[c].result.dependencies, axios)
             = [t |-> "string", pre |-> "", nums |-> <<0, 9, 1>>, to |-> <<0, 21, 0>>]

\* the keys of the object are in ascending lexicographic order
KeysAscending(obj) ==
    \A i \in 1..(Len(obj) - 1) : LexLess(obj[i].k, obj[i + 1].k)

\* C10: two runs over the same repositories with the same policy give the
\* same output, served from the cache or recomputed, and the keys of
\* dependencies and devDependencies are in ascending lexicographic order.
C10_IdenticalAndSorted ==
    /\ \A c, d \in AggCallIds :
          (AggDone(c) /\ AggDone(d) /\ aggCalls[c].versionType = aggCalls[d].versionType)
              => aggCalls[c].result = aggCalls[d].result
    /\ \A c \in AggCallIds :
          (AggDone(c) /\ aggCalls[c].result # Undefined) =>
              /\ KeysAscending(aggCalls[c].result.dependencies)
              /\ KeysAscending(aggCalls[c].result.devDependencies)

----------------------------------------------------------------------------
(* fetchGitHubAPI and the sub-resource fetchers *)

\* how a request to the GitHub API ends
HttpOutcomes == {"ok", "e403", "e404", "transport"}

Failures == HttpOutcomes \ {"ok"}

\* the body of a successful answer to the request for `what`
OkArray(what) == [t |-> "array", of |-> what]

OkObject(what) == [t |-> "object", of |-> what]

\* no test of the status 403: the body of the answer is parsed and returned
fetchGitHubAPINo403Test(outcome, okBody) ==
    CASE outcome = "e403" -> [t |-> "object", message |-> "API rate limit exceeded"]
      [] outcome = "e404" -> [t |-> "object", message |-> "Not Found"]
      [] outcome = "transport" -> Null
      [] OTHER -> okBody

\* fetchGitHubAPI: null on 403 and on a transport error, the error body
\* (with its message) on 404, the parsed body otherwise
fetchGitHubAPI(outcome, okBody) ==
    CASE outcome = "e403" -> Null
      [] outcome = "e404" -> [t |-> "object", message |-> "Not Found"]
      [] outcome = "transport" -> Null
      [] OTHER -> okBody

\* data && data.message
HasMessage(data) == Truthy(data) /\ "message" \in DOMAIN data

\* fetchers that return the body only when it is an array: fetchCommitActivity,
\* fetchContributorStats, fetchCodeFrequency, fetchReleases
ArrayFetcher(data) ==
    IF HasMessage(data) THEN Null
    ELSE IF data.t = "array" THEN data
    ELSE Null

\* a fetcher that returns data || null without looking for an error message
ObjectFetcherNoMessageCheck(data) ==
    IF Truthy(data) THEN data
    ELSE Null

\* fetchers that return data || null: fetchRepositoryLanguages, fetchParticipation
ObjectFetcher(data) ==
    IF HasMessage(data) THEN Null
    ELSE IF Truthy(data) THEN data
    ELSE Null

\* fetchWorkflows: data.workflows
fetchWorkflows(data) ==
    IF HasMessage(data) THEN Null
    ELSE IF Truthy(data) /\ "workflows" \in DOMAIN data THEN data.workflows
    ELSE Null

\* the fields fetchWorkflowRuns keeps of a run
MappedRunFields ==
    { "id", "name", "head_branch", "status", "conclusion", "created_at", "updated_at",
      "html_url", "workflow_id" }

\* fetchWorkflowRuns: {total_count, workflow_runs} with the runs mapped
fetchWorkflowRuns(data) ==
    IF HasMessage(data) THEN Null
    ELSE IF Truthy(data) /\ "workflow_runs" \in DOMAIN data
    THEN [ t |-> "object", total_count |-> data.total_count,
           workflow_runs |->
               [ i \in 1..Len(data.workflow_runs) |->
                   [f \in MappedRunFields \cup {"t"} |-> data.workflow_runs[i][f]] ] ]
    ELSE Null

\* a workflow run as the API of GitHub describes it (the fields the code
\* reads, and one it does not)
ApiRun(k) ==
    [ t |-> "object", id |-> k,
      name |-> Str(IF k % 2 = 1 THEN <<"C","I">> ELSE <<"D","e","p","l","o","y">>),
      head_branch |-> Str(IF k <= 2 THEN <<"m","a","i","n">> ELSE <<"d","e","v">>),
      status |-> Str(IF k = 1 THEN <<"in_progress">> ELSE <<"completed">>),
      conclusion |-> IF k = 1 THEN Null
                     ELSE Str(IF k = 2 THEN <<"success">> ELSE <<"failure">>),
      created_at |-> Num(k), updated_at |-> Num(k + 10),
      html_url |-> Str(<<"https://github.com/.../actions/runs/", k>>),
      workflow_id |-> Num(k + 100),
      run_attempt |-> Num(1) ]

\* a body of /actions/runs with n runs
RunsBody(n) ==
    [ t |-> "object", total_count |-> n, workflow_runs |-> [i \in 1..n |-> ApiRun(i)] ]

\* the status with the branch read from the name of the run
fetchCICDStatusBranchFromName(workflowRuns) ==
    IF \/ ~Truthy(workflowRuns)
       \/ Len(workflowRuns.workflow_runs) = 0
    THEN Null
    ELSE LET latestRun == workflowRuns.workflow_runs[1]
         IN  [ t |-> "object",
               status |-> latestRun.status,
               conclusion |-> latestRun.conclusion,
               name |-> latestRun.name,
               branch |-> latestRun.name,
               created_at |-> latestRun.created_at,
               updated_at |-> latestRun.updated_at,
               html_url |-> latestRun.html_url ]

\* fetchCICDStatus: the fixed fields of the first run, null without runs
fetchCICDStatus(workflowRuns) ==
    IF \/ ~Truthy(workflowRuns)
       \/ Len(workflowRuns.workflow_runs) = 0
    THEN Null
    ELSE LET latestRun == workflowRuns.workflow_runs[1]
         IN  [ t |-> "object",
               status |-> latestRun.status,
               conclusion |-> latestRun.conclusion,
               name |-> latestRun.name,
               branch |-> latestRun.head_branch,
               created_at |-> latestRun.created_at,
               updated_at |-> latestRun.updated_at,
               html_url |-> latestRun.html_url ]

\* fetchFileContent: null on an error body or without content
fetchFileContent(data) ==
    IF HasMessage(data) THEN Null
    ELSE IF Truthy(data) /\ "content" \in DOMAIN data THEN data.content
    ELSE Null

NumReadmeFiles == 6

\* fetchReadme: the content of the first of the six file names that exists;
\* found = 0 when none does, and `fails` is how the requests for the others end
fetchReadme(found, fails) ==
    LET outcomeOf(i) == IF i = found THEN "ok" ELSE fails
        contentOf(i) ==
            fetchFileContent(fetchGitHubAPI(outcomeOf(i),
                [t |-> "object", content |-> [t |-> "string", s |-> <<"readme", i>>]]))
        hits == {i \in 1..NumReadmeFiles : Truthy(contentOf(i))}
    IN  IF hits = {} THEN Null
        ELSE contentOf(CHOOSE i \in hits : \A j \in hits : i <= j)

\* fetchDeployments: the deployments with their statuses, null on failure
fetchDeployments(data) ==
    IF HasMessage(data) THEN Null
    ELSE IF data.t = "array" THEN [t |-> "array", of |-> "deploymentsWithStatuses"]
    ELSE Null

\* how a request to the npm registry ends
RegistryOutcomes == {"ok", "e404", "e500", "transport"}

\* getNpmPackageInfo: the package information, null on 404, on any other
\* error status and on a transport error
getNpmPackageInfo(outcome) ==
    IF outcome = "ok" THEN [t |-> "object", of |-> "npmjs", exists |-> TRUE] ELSE Null

\* how the request for package.json ends: as a GitHub request, or with a
\* file that is not JSON, or with JSON that has no name
PackageJsonOutcomes == HttpOutcomes \cup {"invalidJson", "noName"}

\* fetchNpmPackageInfo: null without a usable package.json, else the package
\* with the publishing workflow found and what the registry knows
fetchNpmPackageInfo(pkg, hasNpmPublishWorkflow, registry) ==
    LET packageJsonContent ==
            fetchFileContent(fetchGitHubAPI(
                IF pkg \in HttpOutcomes THEN pkg ELSE "ok",
                [t |-> "object", content |-> [t |-> "string", s |-> <<pkg>>]]))
        npmPackageInfo == getNpmPackageInfo(registry)
    IN  IF ~Truthy(packageJsonContent) THEN Null
        ELSE IF pkg = "invalidJson" THEN Null
        ELSE IF pkg = "noName" THEN Null
        ELSE [ t |-> "object", of |-> "npm",
               has_npm_publish_workflow |-> hasNpmPublishWorkflow,
               npmjs |-> IF Truthy(npmPackageInfo)
                         THEN [t |-> "object", exists |-> TRUE]
                         ELSE [t |-> "object", exists |-> FALSE] ]

----------------------------------------------------------------------------
(* fetchEnhancedRepositoryData *)

OptionNames ==
    { "includeReadme", "includeLanguages", "includeStats", "includeReleases",
      "includeWorkflows", "includeCICD", "includeDeployments", "includeNpm",
      "includeDeploymentLinks" }

\* no default: an omitted option stays undefined
OptionValueNoDefault(options, o) == options[o]

\* the destructuring default: an omitted (undefined) option is true
OptionValue(options, o) == IF options[o] = Undefined THEN Bool(TRUE) ELSE options[o]

Enabled(options, o) == Truthy(OptionValue(options, o))

\* the options objects given to the call: nothing set, all false but one
\* that is true, all false but one that is omitted, all false
OptionSets ==
    { [o \in OptionNames |-> Undefined] }
    \cup { [o \in OptionNames |-> IF o = x THEN Bool(TRUE) ELSE Bool(FALSE)] : x \in OptionNames }
    \cup { [o \in OptionNames |-> IF o = x THEN Undefined ELSE Bool(FALSE)] : x \in OptionNames }
    \cup { [o \in OptionNames |-> Bool(FALSE)] }

\* the keys the sub-resources put in the record
SubKeys ==
    { "readme", "languages", "stats", "releases", "workflows", "workflow_runs",
      "cicd_status", "deployments", "npm", "deployment_links" }

Absent == [t |-> "absent"]

NotIssued == [t |-> "none"]

Pending == [t |-> "pending"]

\* the enhanced record before the sub-resources are merged: the base fields
\* (here one field) and no sub-resource key
BaseRecord == [k \in SubKeys \cup {"base"} |-> IF k = "base" THEN OkObject("repo") ELSE Absent]

\* Object.assign(enhancedData, data)
Assign(enhancedData, data) ==
    [k \in DOMAIN enhancedData |-> IF k \in DOMAIN data THEN data[k] ELSE enhancedData[k]]

\* the order in which the promises are pushed
PushOrder ==
    << "includeReadme", "includeLanguages", "includeStats", "includeReleases",
       "includeWorkflows", "includeCICD", "includeDeployments", "includeNpm",
       "includeDeploymentLinks" >>

\* additionalData.forEach((data) => Object.assign(enhancedData, data))
RECURSIVE MergeParts(_, _, _)
MergeParts(enhancedData, parts, i) ==
    IF i > Len(PushOrder) THEN enhancedData
    ELSE MergeParts(IF parts[PushOrder[i]] = NotIssued THEN enhancedData
                    ELSE Assign(enhancedData, parts[PushOrder[i]]),
                    parts, i + 1)

\* the repository the enhanced data is asked for
EnhTarget == [owner |-> Null, name |-> repo_y]

\* the id of the fetchDeploymentLinks call made by the assembly
EnhLinkCall == 1

\* what the platforms answer during an assembly: every client fails, or
\* netlify lists one site of the repository
EnhUpstreams ==
    { [p \in Platforms |-> PlatformError(p = "netlify")],
      [p \in Platforms |->
          IF p = "netlify"
          THEN [t |-> "array",
                items |-> <<Site(p, 1, Str(Spelling(2, ENV_USERNAME, repo_y)))>>]
          ELSE NoListing] }

\* only the first enabled sub-resource fetch is started
StartedPartsFirstOnly(options) ==
    [o \in OptionNames |->
        IF /\ Enabled(options, o)
           /\ \A i, j \in 1..Len(PushOrder) :
                 (PushOrder[j] = o /\ i < j) => ~Enabled(options, PushOrder[i])
        THEN Pending ELSE NotIssued]

\* the promises pushed to additionalDataPromises: the fetch of every enabled
\* sub-resource is called, and so started, before Promise.all is awaited
StartedParts(options) ==
    [o \in OptionNames |-> IF Enabled(options, o) THEN Pending ELSE NotIssued]

\* fetchEnhancedRepositoryData(repoName, owner, options) up to the await of
\* the base request
EnhStart(options) ==
    /\ enh.pc = "idle"
    /\ enh' = [pc |-> "awaitBase", options |-> options]
    /\ UNCHANGED <<cache, parseVars, linkVars, aggVars, auxVars>>

\* the base request answered and nothing is tested: the sub-resource fetches
\* are started whatever the answer
EnhBaseNoGuard(outcome) ==
    /\ enh.pc = "awaitBase"
    /\ enh' = [ pc |-> "awaitAll", options |-> enh.options,
                repoData |-> fetchGitHubAPI(outcome, OkObject("repo")),
                parts |-> StartedParts(enh.options),
                failed |-> {} ]
    /\ IF Enabled(enh.options, "includeDeploymentLinks")
       THEN LinkBegin(EnhLinkCall, EnhTarget)
       ELSE UNCHANGED <<linkCalls, platformCalls>>
    /\ UNCHANGED <<cache, upstream, parseVars, aggVars, auxVars>>

\* the base request has ended: null is returned when it failed, otherwise
\* every enabled sub-resource fetch is started and the call awaits them all
EnhBase(outcome) ==
    /\ enh.pc = "awaitBase"
    /\ LET repoData == fetchGitHubAPI(outcome, OkObject("repo"))
       IN  IF ~Truthy(repoData) \/ HasMessage(repoData)
           THEN /\ enh' = [ pc |-> "done", options |-> enh.options,
                            repoData |-> repoData,
                            parts |-> [o \in OptionNames |-> NotIssued],
                            failed |-> {},
                            result |-> Null ]
                /\ UNCHANGED <<linkCalls, platformCalls>>
           ELSE /\ enh' = [ pc |-> "awaitAll", options |-> enh.options,
                            repoData |-> repoData,
                            parts |-> StartedParts(enh.options),
                            failed |-> {} ]
                /\ IF Enabled(enh.options, "includeDeploymentLinks")
                   THEN LinkBegin(EnhLinkCall, EnhTarget)
                   ELSE UNCHANGED <<linkCalls, platformCalls>>
    /\ UNCHANGED <<cache, upstream, parseVars, aggVars, auxVars>>

\* the requests, among those named, that did not end with "ok"
FailedOf(named) == {r \in DOMAIN named : named[r] # "ok"}

\* the promise of sub-resource o settles with the object data; failed (kept
\* for the record of the run) names the requests of o that failed
Settle(o, data, failedRequests) ==
    /\ enh.pc = "awaitAll"
    /\ enh.parts[o] = Pending
    /\ enh' = [enh EXCEPT !.parts[o] = data, !.failed = @ \cup failedRequests]
    /\ UNCHANGED <<cache, parseVars, linkVars, aggVars, auxVars>>

SettleReadme ==
    \E found \in 0..NumReadmeFiles, fails \in Failures :
        Settle("includeReadme", [t |-> "object", readme |-> fetchReadme(found, fails)],
               IF found = 0 THEN {"readme"} ELSE {})

SettleLanguages ==
    \E outcome \in HttpOutcomes :
        Settle("includeLanguages",
               [t |-> "object",
                languages |-> ObjectFetcher(fetchGitHubAPI(outcome, OkObject("languages")))],
               FailedOf([languages |-> outcome]))

\* how the four statistics requests end: all succeed, all fail the same way,
\* or exactly one fails
StatsOutcomes ==
    { <<"ok", "ok", "ok", "ok">> }
    \cup { <<f, f, f, f>> : f \in Failures }
    \cup { [i \in 1..4 |-> IF i = k THEN f ELSE "ok"] : k \in 1..4, f \in Failures }

SettleStatsOf(o1, o2, o3, o4) ==
    Settle("includeStats",
           [t |-> "object",
            stats |->
              [ t |-> "object",
                commit_activity |-> ArrayFetcher(fetchGitHubAPI(o1, OkArray("commit_activity"))),
                contributors |-> ArrayFetcher(fetchGitHubAPI(o2, OkArray("contributors"))),
                code_frequency |-> ArrayFetcher(fetchGitHubAPI(o3, OkArray("code_frequency"))),
                participation |-> ObjectFetcher(fetchGitHubAPI(o4, OkObject("participation"))) ]],
           FailedOf([commit_activity |-> o1, contributors |-> o2,
                     code_frequency |-> o3, participation |-> o4]))

SettleStats == \E o \in StatsOutcomes : SettleStatsOf(o[1], o[2], o[3], o[4])

SettleReleases ==
    \E outcome \in HttpOutcomes :
        Settle("includeReleases",
               [t |-> "object",
                releases |-> ArrayFetcher(fetchGitHubAPI(outcome, OkArray("releases")))],
               FailedOf([releases |-> outcome]))

SettleWorkflows ==
    \E o1 \in HttpOutcomes, o2 \in HttpOutcomes :
        Settle("includeWorkflows",
               [t |-> "object",
                workflows |-> fetchWorkflows(fetchGitHubAPI(o1,
                                [t |-> "object", workflows |-> OkArray("workflows")])),
                workflow_runs |-> fetchWorkflowRuns(fetchGitHubAPI(o2, RunsBody(1)))],
               FailedOf([workflows |-> o1, workflow_runs |-> o2]))

SettleCICD ==
    \E outcome \in HttpOutcomes :
        Settle("includeCICD",
               [t |-> "object",
                cicd_status |-> fetchCICDStatus(fetchWorkflowRuns(
                                    fetchGitHubAPI(outcome, RunsBody(1))))],
               FailedOf([cicd_status |-> outcome]))

SettleDeployments ==
    \E outcome \in HttpOutcomes :
        Settle("includeDeployments",
               [t |-> "object",
                deployments |-> fetchDeployments(fetchGitHubAPI(outcome, OkArray("deployments")))],
               FailedOf([deployments |-> outcome]))

SettleNpm ==
    \E pkg \in HttpOutcomes, registry \in {"ok", "e404"} :
        Settle("includeNpm",
               [t |-> "object", npm |-> fetchNpmPackageInfo(pkg, FALSE, registry)],
               FailedOf([npm |-> pkg]))

\* fetchDeploymentLinks has returned (on a cache hit it had returned at once);
\* its fetch failed when no platform client answered with a list
SettleDeploymentLinks ==
    /\ enh.pc = "awaitAll"
    /\ enh.parts["includeDeploymentLinks"] = Pending
    /\ IF linkCalls[EnhLinkCall].pc = "done"
       THEN UNCHANGED <<cache, linkCalls>>
       ELSE LinkEnd(EnhLinkCall)
    /\ enh' = [enh EXCEPT
                 !.parts["includeDeploymentLinks"] =
                     [t |-> "object", deployment_links |-> linkCalls'[EnhLinkCall].result],
                 !.failed = @ \cup
                     (IF \A p \in Platforms : upstream[p].t # "array"
                      THEN {"deployment_links"} ELSE {})]
    /\ UNCHANGED <<upstream, platformCalls, parseVars, aggVars, auxVars>>

\* Promise.all has resolved: the parts are merged and the record returned
EnhMerge ==
    /\ enh.pc = "awaitAll"
    /\ \A o \in OptionNames : enh.parts[o] # Pending
    /\ enh' = [ pc |-> "done", options |-> enh.options, repoData |-> enh.repoData,
                parts |-> enh.parts, failed |-> enh.failed,
                result |-> MergeParts(BaseRecord, enh.parts, 1) ]
    /\ UNCHANGED <<cache, parseVars, linkVars, aggVars, auxVars>>

EnhInit ==
    /\ input = Null
    /\ parsed = NotCalled
    /\ ppc = "idle"
    /\ cache = EmptyCache
    /\ upstream \in EnhUpstreams
    /\ linkCalls = [c \in LinkCallIds |-> IdleCall]
    /\ platformCalls = [p \in Platforms |-> 0]
    /\ github = Null
    /\ aggCalls = [c \in AggCallIds |-> IdleCall]
    /\ enh = IdleCall
    /\ AuxIdle

EnhNext ==
    \/ \E options \in OptionSets : EnhStart(options)
    \/ \E outcome \in HttpOutcomes : EnhBase(outcome)
    \/ SettleReadme
    \/ SettleLanguages
    \/ SettleStats
    \/ SettleReleases
    \/ SettleWorkflows
    \/ SettleCICD
    \/ SettleDeployments
    \/ SettleNpm
    \/ SettleDeploymentLinks
    \/ EnhMerge

SpecEnh == EnhInit /\ [][EnhNext]_vars

----------------------------------------------------------------------------
(* Claims about fetchEnhancedRepositoryData *)

EnhDone == enh.pc = "done"

\* the step that ends the wait for the base request starts every enabled fetch
AllStartedTogether ==
    (enh.pc = "awaitBase" /\ enh'.pc = "awaitAll") =>
        \A o \in OptionNames : Enabled(enh.options, o) => enh'.parts[o] = Pending

\* a record is returned only when every enabled fetch has been started and
\* has settled
ReturnedAfterAll ==
    (enh.pc = "done" /\ enh.result # Null) =>
        \A o \in OptionNames :
            Enabled(enh.options, o) => enh.parts[o] \notin {Pending, NotIssued}

\* C23: within one fetchEnhancedRepositoryData call all enabled sub-resource
\* fetches are started before any of them is awaited, so that all of them
\* can be in flight at the same time, and the call returns its record only
\* after every enabled sub-resource fetch has settled
C23_FanOutFanIn ==
    /\ [][AllStartedTogether]_vars
    /\ []ReturnedAfterAll

\* with every option omitted, the last fetch pushed has settled while the
\* first one pushed and seven others are still in flight
C23_Witness ==
    /\ enh.pc = "awaitAll"
    /\ \A o \in OptionNames : enh.options[o] = Undefined
    /\ enh.parts["includeDeploymentLinks"] \notin {Pending, NotIssued}
    /\ \A o \in OptionNames \ {"includeDeploymentLinks"} : enh.parts[o] = Pending

\* the base request failed (null) or answered with an error body
BaseFailed == enh.repoData = Null \/ HasMessage(enh.repoData)

\* the keys each option's sub-resource puts in the record
KeysOf(o) ==
    CASE o = "includeReadme" -> {"readme"}
      [] o = "includeLanguages" -> {"languages"}
      [] o = "includeStats" -> {"stats"}
      [] o = "includeReleases" -> {"releases"}
      [] o = "includeWorkflows" -> {"workflows", "workflow_runs"}
      [] o = "includeCICD" -> {"cicd_status"}
      [] o = "includeDeployments" -> {"deployments"}
      [] o = "includeNpm" -> {"npm"}
      [] o = "includeDeploymentLinks" -> {"deployment_links"}

StatsFields == {"commit_activity", "contributors", "code_frequency", "participation"}

\* the fetch behind key k failed: its request did, and for stats all four did
KeyFailed(k) ==
    IF k = "stats" THEN StatsFields \subseteq enh.failed ELSE k \in enh.failed

\* key k of the returned record is null when its fetch failed and holds the
\* fetched value otherwise
NullOrFetched(o, k) ==
    IF KeyFailed(k) THEN enh.result[k] = Null
    ELSE enh.result[k] = enh.parts[o][k] /\ enh.result[k] # Null

\* the stats key holds an object whose fields are null exactly where the
\* request for the field failed
StatsFieldwise ==
    /\ enh.result["stats"] # Null
    /\ enh.result["stats"].t = "object"
    /\ \A f \in StatsFields :
          IF f \in enh.failed THEN enh.result["stats"][f] = Null
          ELSE enh.result["stats"][f] # Null

TrueOrOmitted(o) == enh.options[o] \in {Undefined, Bool(TRUE)}

\* C16: once the base fetch has succeeded, the fetch of a sub-resource is
\* issued exactly when its option is true or omitted, and the record returned
\* holds the keys of the sub-resource exactly in that case; with the option
\* false no fetch is issued and the keys are absent
C16_OptionsGateFetches ==
    (enh.pc \in {"awaitAll", "done"} /\ ~BaseFailed) =>
        \A o \in OptionNames :
            /\ (enh.parts[o] # NotIssued) <=> TrueOrOmitted(o)
            /\ EnhDone => \A k \in KeysOf(o) : (enh.result[k] # Absent) <=> TrueOrOmitted(o)

\* a record returned with includeNpm omitted and every other option false: it
\* holds the npm key and no other sub-resource key
C16_Witness ==
    /\ EnhDone
    /\ ~BaseFailed
    /\ enh.options["includeNpm"] = Undefined
    /\ \A o \in OptionNames \ {"includeNpm"} : enh.options[o] = Bool(FALSE)
    /\ enh.result["npm"] # Absent
    /\ \A k \in SubKeys \ {"npm"} : enh.result[k] = Absent

\* no request of fetchDeploymentLinks was made and its cache was not written
NoLinkFetch ==
    /\ linkCalls[EnhLinkCall].pc = "idle"
    /\ \A p \in Platforms : platformCalls[p] = 0
    /\ cache = EmptyCache

----------------------------------------------------------------------------
(* getEnhancedRepositories *)

\* the options given to a batch: every sub-resource off except the deployment
\* links, which are left to their default or switched off too
BatchOptions ==
    { [o \in OptionNames |-> IF o = "includeDeploymentLinks" THEN v ELSE Bool(FALSE)] :
        v \in {Undefined, Bool(FALSE)} }

\* the repositories of ENV.USERNAME that /user/repos lists, one assembly
\* being run for each
BatchListings ==
    { [t |-> "array", items |-> l] :
        l \in UNION { [1..n -> {repo_y, repo_Y}] : n \in 0..NumLinkCalls } }

\* getEnhancedRepositories(type, options) up to await getRepositories
BatchStart(options) ==
    /\ batch.pc = "idle"
    /\ batch' = [pc |-> "awaitRepos", options |-> options]
    /\ UNCHANGED <<cache, laterVars, parseVars, linkVars, aggVars, enh, clockVars, sideVars>>

\* getRepositories has answered: an empty list is returned when the answer is
\* no array, otherwise repos.map starts one assembly per repository, each
\* running up to its await of the base request
BatchRepos(outcome, listing) ==
    /\ batch.pc = "awaitRepos"
    /\ LET repos == fetchGitHubAPI(outcome, listing)
       IN  IF ~Truthy(repos) \/ repos.t # "array"
           THEN batch' = [ pc |-> "done", options |-> batch.options, listed |-> outcome,
                           result |-> [t |-> "array", items |-> <<>>] ]
           ELSE batch' = [ pc |-> "awaitAll", options |-> batch.options, listed |-> outcome,
                           repos |-> repos.items,
                           asm |-> [i \in 1..Len(repos.items) |-> [pc |-> "awaitBase"]] ]
    /\ UNCHANGED <<cache, laterVars, parseVars, linkVars, aggVars, enh, clockVars, sideVars>>

\* the answer of the base request is never tested
BaseRequestNeverFails(outcome) == FALSE

\* the base request of a repository failed: it answered null or an error body
BaseRequestFailed(outcome) ==
    LET repoData == fetchGitHubAPI(outcome, OkObject("repo"))
    IN  ~Truthy(repoData) \/ HasMessage(repoData)

\* the base request of assembly i has answered: null is returned when it
\* failed, otherwise the assembly awaits its sub-resources
AsmAnswered(i, outcome) ==
    /\ batch.pc = "awaitAll"
    /\ i \in DOMAIN batch.asm
    /\ batch.asm[i].pc = "awaitBase"
    /\ batch' = [batch EXCEPT !.asm[i] =
                    IF BaseRequestFailed(outcome)
                    THEN [pc |-> "done", base |-> outcome, result |-> Null]
                    ELSE [pc |-> "awaitAll", base |-> outcome]]

\* the step of assembly i at the answer of its base request, which calls
\* fetchDeploymentLinks if the request succeeded and the links are enabled
AsmBase(i, outcome) ==
    /\ AsmAnswered(i, outcome)
    /\ IF ~BaseRequestFailed(outcome) /\ Enabled(batch.options, "includeDeploymentLinks")
       THEN LinkBegin(i, [owner |-> Str(ENV_USERNAME), name |-> batch.repos[i]])
       ELSE UNCHANGED <<linkCalls, platformCalls>>
    /\ UNCHANGED <<cache, upstream, laterVars, parseVars, aggVars, enh, clockVars, sideVars>>

\* the same step in a batch run with the links switched off
AsmBaseNoLinks(i, outcome) ==
    /\ AsmAnswered(i, outcome)
    /\ ~Enabled(batch.options, "includeDeploymentLinks")
    /\ UNCHANGED <<linkCalls, platformCalls>>
    /\ UNCHANGED <<cache, upstream, laterVars, parseVars, aggVars, enh, clockVars, sideVars>>

\* assembly i awaits its sub-resources
AsmWaiting(i) ==
    /\ batch.pc = "awaitAll"
    /\ i \in DOMAIN batch.asm
    /\ batch.asm[i].pc = "awaitAll"

\* the merged record is returned by assembly i
AsmMerged(i) ==
    batch' = [batch EXCEPT !.asm[i] =
          [ pc |-> "done", base |-> batch.asm[i].base,
            result |->
              MergeParts([BaseRecord EXCEPT !["base"] =
                              [t |-> "object", of |-> "repo", name |-> batch.repos[i]]],
                         [o \in OptionNames |->
                            IF Enabled(batch.options, o)
                            THEN [t |-> "object",
                                  deployment_links |-> linkCalls'[i].result]
                            ELSE NotIssued],
                         1) ]]

\* the sub-resources of assembly i have settled (fetchDeploymentLinks has
\* returned, if it was called) and the merged record is returned
AsmFinish(i) ==
    /\ AsmWaiting(i)
    /\ IF Enabled(batch.options, "includeDeploymentLinks") /\ linkCalls[i].pc # "done"
       THEN LinkEnd(i)
       ELSE UNCHANGED <<cache, linkCalls>>
    /\ AsmMerged(i)
    /\ UNCHANGED <<upstream, platformCalls, laterVars, parseVars, aggVars, enh, clockVars, sideVars>>

\* the same step in a batch run with the links switched off
AsmFinishNoLinks(i) ==
    /\ AsmWaiting(i)
    /\ ~Enabled(batch.options, "includeDeploymentLinks")
    /\ UNCHANGED <<cache, linkCalls>>
    /\ AsmMerged(i)
    /\ UNCHANGED <<upstream, platformCalls, laterVars, parseVars, aggVars, enh, clockVars, sideVars>>

\* enhancedRepos.filter((repo) => repo !== null)
RECURSIVE FilterNonNull(_)
FilterNonNull(enhancedRepos) ==
    IF Len(enhancedRepos) = 0 THEN <<>>
    ELSE (IF Head(enhancedRepos) = Null THEN <<>> ELSE <<Head(enhancedRepos)>>)
         \o FilterNonNull(Tail(enhancedRepos))

\* Promise.all over the assemblies has resolved
BatchEnd ==
    /\ batch.pc = "awaitAll"
    /\ \A i \in DOMAIN batch.asm : batch.asm[i].pc = "done"
    /\ batch' = [ pc |-> "done", options |-> batch.options, listed |-> batch.listed,
                  repos |-> batch.repos, asm |-> batch.asm,
                  result |-> [ t |-> "array",
                               items |-> FilterNonNull([i \in DOMAIN batch.asm |->
                                                           batch.asm[i].result]) ] ]
    /\ UNCHANGED <<cache, laterVars, parseVars, linkVars, aggVars, enh, clockVars, sideVars>>

BatchInit ==
    /\ input = Null
    /\ parsed = NotCalled
    /\ ppc = "idle"
    /\ cache = EmptyCache
    /\ upstream \in EnhUpstreams
    /\ linkCalls = [c \in LinkCallIds |-> IdleCall]
    /\ platformCalls = [p \in Platforms |-> 0]
    /\ github = Null
    /\ aggCalls = [c \in AggCallIds |-> IdleCall]
    /\ enh = IdleCall
    /\ AuxIdle

BatchNext ==
    \/ \E options \in BatchOptions : BatchStart(options)
    \/ \E outcome \in HttpOutcomes, listing \in BatchListings : BatchRepos(outcome, listing)
    \/ \E i \in LinkCallIds, outcome \in HttpOutcomes : AsmBase(i, outcome)
    \/ \E i \in LinkCallIds : AsmFinish(i)
    \/ BatchEnd

SpecBatch == BatchInit /\ [][BatchNext]_vars

----------------------------------------------------------------------------
(* Claims about getEnhancedRepositories *)

\* the step that ends the wait for the listing starts the assembly of every
\* listed repository
EveryAssemblyStarted ==
    (batch.pc = "awaitRepos" /\ batch'.pc = "awaitAll") =>
        /\ DOMAIN batch'.asm = 1..Len(batch'.repos)
        /\ \A i \in DOMAIN batch'.asm : batch'.asm[i].pc = "awaitBase"

\* the names of the listed repositories whose base request succeeded, in
\* the order of the listing
NamesOfFetched ==
    LET fetched == SelectSeq([i \in 1..Len(batch.repos) |-> i],
                             LAMBDA i : batch.asm[i].base = "ok")
    IN  [k \in 1..Len(fetched) |-> batch.repos[fetched[k]]]

\* the batch returns the records of those repositories and nothing else; it
\* returns the empty list when the listing is not a list
RecordsInListingOrder ==
    batch.pc = "done" =>
        IF batch.listed # "ok" THEN batch.result = [t |-> "array", items |-> <<>>]
        ELSE /\ batch.result.t = "array"
             /\ Len(batch.result.items) = Len(NamesOfFetched)
             /\ \A k \in 1..Len(NamesOfFetched) :
                   /\ batch.result.items[k] # Null
                   /\ batch.result.items[k]["base"].name = NamesOfFetched[k]

C11_PlatformCalledAtMostOnce ==
    \A p \in Platforms : platformCalls[p] <= 1

----------------------------------------------------------------------------
(* Expiry of packageJsonCache entries *)

\* config: ONE_WEEK, in seconds
ONE_WEEK == 7 * 24 * 60 * 60

\* packageJsonCache = createCacheManager(CACHE_SETTINGS.ONE_WEEK): the stdTTL
\* of the NodeCache, which set(key, value) applies to every entry
stdTTL == ONE_WEEK

\* one hour, in seconds
OneHour == 60 * 60

\* the periods that elapse between two steps of the program
Periods == {1, OneHour, ONE_WEEK}

MaxWaits == 3

\* NodeCache keeps with an entry the time stored + ttl and treats the entry as
\* absent once that time is before the current time
Expired(at, time) == at + stdTTL < time

\* time passes; packageJsonCache.get no longer finds an expired entry
TtlElapse(d) ==
    /\ clock.waits < MaxWaits
    /\ clock' = [now |-> clock.now + d, waits |-> clock.waits + 1]
    /\ cache' = [cache EXCEPT !["deploymentPlatforms"] =
                    IF Truthy(@) /\ Expired(storedAt, clock.now + d) THEN Undefined ELSE @]
    /\ UNCHANGED <<storedAt, batch, sideVars, laterVars, parseVars, linkVars, aggVars, enh>>

\* a call of fetchDeploymentLinks at the current time
TtlStart(c, target) ==
    /\ \A d \in LinkCallIds : d < c => linkCalls[d].pc # "idle"
    /\ LinkBegin(c, target)
    /\ UNCHANGED <<cache, upstream, clockVars, batch, sideVars, laterVars, parseVars, aggVars, enh>>

\* the continuation of the call: packageJsonCache.set stores the entry with
\* the default TTL, counted from the current time
TtlResume(c) ==
    /\ LinkEnd(c)
    /\ storedAt' = clock.now
    /\ UNCHANGED <<upstream, platformCalls, clock, batch, sideVars, laterVars, parseVars, aggVars, enh>>

TtlInit ==
    /\ input = Null
    /\ parsed = NotCalled
    /\ ppc = "idle"
    /\ cache = EmptyCache
    /\ upstream \in EnhUpstreams
    /\ linkCalls = [c \in LinkCallIds |-> IdleCall]
    /\ platformCalls = [p \in Platforms |-> 0]
    /\ github = Null
    /\ aggCalls = [c \in AggCallIds |-> IdleCall]
    /\ enh = IdleCall
    /\ AuxIdle

TtlNext ==
    \/ \E d \in Periods : TtlElapse(d)
    \/ \E c \in LinkCallIds, target \in LinkTargets : TtlStart(c, target)
    \/ \E c \in LinkCallIds : TtlResume(c)

SpecTtl == TtlInit /\ [][TtlNext]_vars

----------------------------------------------------------------------------
(* Claims about the expiry of the platform data *)

\* C12: a call of fetchDeploymentLinks is served from the 'deploymentPlatforms'
\* entry (it returns without calling the platform clients) only while less
\* than one hour has elapsed since the entry was stored (a call made at the
\* very end of the hour is let through)
C12_ServedWithinOneHour ==
    [][ \A c \in LinkCallIds :
          (linkCalls[c].pc = "idle" /\ linkCalls'[c].pc = "done")
              => clock.now - storedAt <= OneHour ]_vars

----------------------------------------------------------------------------
(* GET /package.json/refresh *)

\* validateVersionType(version)
validateVersionType(version) ==
    IF version.t = "string" /\ version.s \in {"min", "max", "minmax"} THEN version.s
    ELSE "max"

\* req.query.version: a policy, another word, or no parameter
QueryVersions == {Str("min"), Str("max"), Str("minmax"), Str("latest"), Undefined}

\* res.redirect(`/package.json?version=${versionType}`)
Redirect(versionType) == [t |-> "redirect", version |-> versionType]

\* the handler once fetchAggregatedData has returned (it never raises)
RefreshAnswered(c, versionType) ==
    requests' = [requests EXCEPT ![c] =
        IF aggCalls'[c].pc = "done"
        THEN [pc |-> "done", versionType |-> versionType, response |-> Redirect(versionType)]
        ELSE [pc |-> "awaitData", versionType |-> versionType]]

\* the handler up to the first await inside fetchAggregatedData
RefreshStart(c, version) ==
    /\ requests[c].pc = "idle"
    /\ AggBegin(c, validateVersionType(version))
    /\ RefreshAnswered(c, validateVersionType(version))
    /\ UNCHANGED <<github, batch, clockVars, clients, npmCalls, probe, laterVars, parseVars, linkVars, enh>>

\* getRepositories has answered inside the call made by the handler
RefreshRepos(c) ==
    /\ requests[c].pc = "awaitData"
    /\ AggListed(c)
    /\ RefreshAnswered(c, requests[c].versionType)
    /\ UNCHANGED <<github, batch, clockVars, clients, npmCalls, probe, laterVars, parseVars, linkVars, enh>>

\* the loop over the repositories inside the call made by the handler
RefreshDetails(c) ==
    /\ requests[c].pc = "awaitData"
    /\ AggLoop(c)
    /\ RefreshAnswered(c, requests[c].versionType)
    /\ UNCHANGED <<github, batch, clockVars, clients, npmCalls, probe, laterVars, parseVars, linkVars, enh>>

\* the listings used for the routes: null, or at most one repository
RouteListings ==
    {Null} \cup { [t |-> "array", items |-> l] : l \in UNION { [1..n -> RepoNames] : n \in 0..1 } }

\* the entries left in the cache by the requests served before: none, or for
\* every policy the aggregate of the listing of that time
EarlierCaches ==
    {EmptyCache} \cup
    { [k \in CacheKeys |->
         CASE k = "packageData-min" -> LoopAndSortOf[l.items, "min"]
           [] k = "packageData-max" -> LoopAndSortOf[l.items, "max"]
           [] k = "packageData-minmax" -> LoopAndSortOf[l.items, "minmax"]
           [] OTHER -> Undefined] :
        l \in {x \in RouteListings \ {Null} :
                  \A vt \in VersionTypes : LoopAndSortOf[x.items, vt] # Thrown} }

RefreshInit ==
    /\ input = Null
    /\ parsed = NotCalled
    /\ ppc = "idle"
    /\ cache \in EarlierCaches
    /\ upstream = [p \in Platforms |-> NoListing]
    /\ linkCalls = [c \in LinkCallIds |-> IdleCall]
    /\ platformCalls = [p \in Platforms |-> 0]
    /\ github \in RouteListings
    /\ aggCalls = [c \in AggCallIds |-> IdleCall]
    /\ enh = IdleCall
    /\ AuxIdle

RefreshNext ==
    \/ \E c \in AggCallIds, version \in QueryVersions : RefreshStart(c, version)
    \/ \E c \in AggCallIds : RefreshRepos(c)
    \/ \E c \in AggCallIds : RefreshDetails(c)

SpecRefresh == RefreshInit /\ [][RefreshNext]_vars

----------------------------------------------------------------------------
(* Claims about the refresh route *)

\* the aggregate of the upstream repositories under a policy
FreshAggregate(versionType) == LoopAndSortOf[github.items, versionType]

\* C13: once a refresh request for policy P has been answered with the
\* redirect, and the upstream repositories can be listed and aggregated, the
\* entry 'packageData-P' is the aggregate of the upstream repositories, also
\* when an entry for P was in the cache before the request
C13_RefreshRecomputes ==
    \A c \in AggCallIds :
        (/\ requests[c].pc = "done"
         /\ github.t = "array"
         /\ FreshAggregate(requests[c].versionType) # Thrown)
        => cache[PackageDataKey(requests[c].versionType)]
              = FreshAggregate(requests[c].versionType)

----------------------------------------------------------------------------
(* getNetlifySites, getVercelSites, getRenderSites *)

\* ENV.NETLIFY_TOKEN, ENV.VERCEL_TOKEN, ENV.RENDER_TOKEN: unset, empty or set
Tokens == {Undefined, Str(<<>>), Str(<<"t","o","k">>)}

\* what the platform answers to the request: the fetch rejects, an error
\* status, or a body (the expected list, another shape, or a list with an
\* element the mapping cannot read)
ClientOutcomes ==
    { [kind |-> "reject"] }
    \cup { [kind |-> "status", status |-> st] : st \in {"401", "403", "500"} }
    \cup { [kind |-> "ok", body |-> b] : b \in {"sites", "other", "unreadable"} }

\* { message, configured, error: errorText }
PlatformErrorText(configured) ==
    [t |-> "object", configured |-> configured, message |-> "error", error |-> "text"]

\* always requests, whatever the token
ClientStartNoTokenCheck(p) ==
    /\ clients[p].pc = "idle"
    /\ clients' = [clients EXCEPT ![p] =
          [pc |-> "awaitResponse", token |-> @.token, requests |-> @.requests + 1]]
    /\ UNCHANGED <<cache, batch, clockVars, requests, npmCalls, probe, laterVars, parseVars, linkVars, aggVars, enh>>

\* the client up to its first await: without a token the error object is
\* returned before any request is made
ClientStart(p) ==
    /\ clients[p].pc = "idle"
    /\ clients' = [clients EXCEPT ![p] =
          IF ~Truthy(@.token)
          THEN [pc |-> "done", token |-> @.token, requests |-> @.requests,
                result |-> PlatformError(FALSE)]
          ELSE [pc |-> "awaitResponse", token |-> @.token, requests |-> @.requests + 1]]
    /\ UNCHANGED <<cache, batch, clockVars, requests, npmCalls, probe, laterVars, parseVars, linkVars, aggVars, enh>>

\* what the client returns once the platform has answered
ClientResult(p, token, outcome) ==
    CASE outcome.kind = "reject" -> PlatformError(Truthy(token))
      [] outcome.kind = "status" -> PlatformErrorText(TRUE)
      [] outcome.body = "other" -> PlatformError(TRUE)
      [] outcome.body = "unreadable" -> PlatformError(Truthy(token))
      [] OTHER -> [t |-> "array", items |-> <<Site(p, 1, Null)>>]

\* the rest of the client
ClientAnswer(p, outcome) ==
    /\ clients[p].pc = "awaitResponse"
    /\ clients' = [clients EXCEPT ![p] =
          [pc |-> "done", token |-> @.token, requests |-> @.requests,
           result |-> ClientResult(p, @.token, outcome)]]
    /\ UNCHANGED <<cache, batch, clockVars, requests, npmCalls, probe, laterVars, parseVars, linkVars, aggVars, enh>>

ClientInit ==
    /\ pass = IdleCall
    /\ input = Null
    /\ parsed = NotCalled
    /\ ppc = "idle"
    /\ cache = EmptyCache
    /\ upstream = [p \in Platforms |-> NoListing]
    /\ linkCalls = [c \in LinkCallIds |-> IdleCall]
    /\ platformCalls = [p \in Platforms |-> 0]
    /\ github = Null
    /\ aggCalls = [c \in AggCallIds |-> IdleCall]
    /\ enh = IdleCall
    /\ batch = IdleCall
    /\ clock = [now |-> 0, waits |-> 0]
    /\ storedAt = 0
    /\ requests = [c \in AggCallIds |-> IdleCall]
    /\ npmCalls = [c \in NpmCallIds |-> IdleCall]
    /\ probe = IdleCall
    /\ \E tokens \in [Platforms -> Tokens] :
          clients = [p \in Platforms |-> [pc |-> "idle", token |-> tokens[p], requests |-> 0]]

ClientNext ==
    \/ \E p \in Platforms : ClientStart(p)
    \/ \E p \in Platforms, outcome \in ClientOutcomes : ClientAnswer(p, outcome)

SpecClient == ClientInit /\ [][ClientNext]_vars

----------------------------------------------------------------------------
(* Claims about the platform clients *)

\* C14: a platform client called without its credential returns exactly
\* {configured: false, message: <non-empty string>}, raises nothing and makes
\* no HTTP request to the platform
C14_NotConfigured ==
    \A p \in Platforms :
        (clients[p].pc # "idle" /\ ~Truthy(clients[p].token))
        => /\ clients[p].pc = "done"
           /\ DOMAIN clients[p].result = {"t", "configured", "message"}
           /\ clients[p].result.t = "object"
           /\ clients[p].result.configured = FALSE
           /\ clients[p].result.message # ""
           /\ clients[p].requests = 0

\* the three clients have been called, none with a credential, unset for one
\* and empty for another
C14_Witness ==
    /\ \A p \in Platforms : clients[p].pc = "done" /\ ~Truthy(clients[p].token)
    /\ clients["netlify"].token = Undefined
    /\ clients["vercel"].token = Str(<<>>)

----------------------------------------------------------------------------
(* Calls of fetchNpmPackageInfo *)

\* a call of fetchNpmPackageInfo(repoName, owner), with the way its requests
\* end: package.json, the scan of the workflows, the npm registry; the calls
\* share no state, so a call is taken in one step
NpmCall(c, pkg, hasNpmPublishWorkflow, registry) ==
    /\ npmCalls[c].pc = "idle"
    /\ \A d \in NpmCallIds : d < c => npmCalls[d].pc # "idle"
    /\ npmCalls' = [npmCalls EXCEPT ![c] =
          [ pc |-> "done", pkg |-> pkg, workflow |-> hasNpmPublishWorkflow,
            registry |-> registry,
            result |-> fetchNpmPackageInfo(pkg, hasNpmPublishWorkflow, registry) ]]
    /\ UNCHANGED <<cache, batch, clockVars, requests, clients, probe, laterVars, parseVars, linkVars, aggVars,
                   enh>>

NpmInit ==
    /\ input = Null
    /\ parsed = NotCalled
    /\ ppc = "idle"
    /\ cache = EmptyCache
    /\ upstream = [p \in Platforms |-> NoListing]
    /\ linkCalls = [c \in LinkCallIds |-> IdleCall]
    /\ platformCalls = [p \in Platforms |-> 0]
    /\ github = Null
    /\ aggCalls = [c \in AggCallIds |-> IdleCall]
    /\ enh = IdleCall
    /\ AuxIdle

NpmNext ==
    \E c \in NpmCallIds, pkg \in PackageJsonOutcomes, wf \in BOOLEAN,
       registry \in RegistryOutcomes :
        NpmCall(c, pkg, wf, registry)

SpecNpm == NpmInit /\ [][NpmNext]_vars

----------------------------------------------------------------------------
(* Claims about fetchNpmPackageInfo *)

\* C15: two calls of fetchNpmPackageInfo on the same repository (its
\* package.json is read and names a package), one whose registry request ends
\* with 404 and one whose registry request fails in
\* transport or ends with another error status, never return the same value
C15_NotFoundDistinctFromFailure ==
    \A c, d \in NpmCallIds :
        (/\ npmCalls[c].pc = "done" /\ npmCalls[d].pc = "done"
         /\ npmCalls[c].pkg = "ok" /\ npmCalls[d].pkg = "ok"
         /\ npmCalls[c].workflow = npmCalls[d].workflow
         /\ npmCalls[c].registry = "e404"
         /\ npmCalls[d].registry \in {"transport", "e500"})
        => npmCalls[c].result # npmCalls[d].result

----------------------------------------------------------------------------
(* The service functions one at a time, GitHub answering in every way *)

\* the functions called alone
FetcherNames ==
    { "fetchGitHubAPI", "fetchRepositoryLanguages", "fetchCommitActivity", "fetchWorkflows",
      "fetchWorkflowRuns", "fetchCICDStatus", "fetchFileContent", "fetchReadme",
      "fetchDeployments", "fetchNpmPackageInfo" }

\* what the function returns when every request it makes to GitHub ends with
\* outcome
FetcherResult(fn, outcome) ==
    CASE fn = "fetchGitHubAPI" -> fetchGitHubAPI(outcome, OkObject("body"))
      [] fn = "fetchRepositoryLanguages" ->
            ObjectFetcher(fetchGitHubAPI(outcome, OkObject("languages")))
      [] fn = "fetchCommitActivity" ->
            ArrayFetcher(fetchGitHubAPI(outcome, OkArray("commit_activity")))
      [] fn = "fetchWorkflows" ->
            fetchWorkflows(fetchGitHubAPI(outcome,
                [t |-> "object", workflows |-> OkArray("workflows")]))
      [] fn = "fetchWorkflowRuns" -> fetchWorkflowRuns(fetchGitHubAPI(outcome, RunsBody(1)))
      [] fn = "fetchCICDStatus" ->
            fetchCICDStatus(fetchWorkflowRuns(fetchGitHubAPI(outcome, RunsBody(1))))
      [] fn = "fetchFileContent" ->
            fetchFileContent(fetchGitHubAPI(outcome,
                [t |-> "object", content |-> [t |-> "string", s |-> <<"text">>]]))
      [] fn = "fetchReadme" -> fetchReadme(IF outcome = "ok" THEN 1 ELSE 0, outcome)
      [] fn = "fetchDeployments" ->
            fetchDeployments(fetchGitHubAPI(outcome, OkArray("deployments")))
      [] OTHER -> fetchNpmPackageInfo(outcome, FALSE, "ok")

\* the requests the function makes to GitHub before it returns, when each
\* ends with outcome (fetchGitHubAPI itself makes one and never repeats it)
FetcherRequests(fn, outcome) ==
    CASE fn = "fetchReadme" -> IF outcome = "ok" THEN 1 ELSE NumReadmeFiles
      [] fn = "fetchNpmPackageInfo" -> IF outcome = "ok" THEN 2 ELSE 1
      [] fn = "fetchDeployments" -> 1
      [] OTHER -> 1

\* no other service function has been called in this run
Alone(started) ==
    /\ "batch" \in started \/ batch.pc = "idle"
    /\ "agg" \in started \/ \A c \in AggCallIds : aggCalls[c].pc = "idle"
    /\ "probe" \in started \/ probe.pc = "idle"

\* a call of one fetcher
ProbeCall(fn, outcome) ==
    /\ Alone({})
    /\ probe' = [ pc |-> "done", fn |-> fn, outcome |-> outcome,
                  requests |-> FetcherRequests(fn, outcome),
                  result |-> FetcherResult(fn, outcome) ]
    /\ UNCHANGED <<cache, batch, clockVars, requests, clients, npmCalls, laterVars, parseVars, linkVars,
                   aggVars, enh>>

\* the batch is run with every sub-resource switched off
DegradeBatch ==
    \/ Alone({}) /\ BatchStart([o \in OptionNames |-> Bool(FALSE)])
    \/ \E outcome \in HttpOutcomes, listing \in BatchListings : BatchRepos(outcome, listing)
    \/ \E i \in LinkCallIds, outcome \in HttpOutcomes : AsmBaseNoLinks(i, outcome)
    \/ \E i \in LinkCallIds : AsmFinishNoLinks(i)
    \/ BatchEnd

DegradeAgg ==
    \/ \E versionType \in VersionTypes : Alone({}) /\ AggStart(1, versionType)
    \/ AggRepos(1)
    \/ AggDetails(1)

DegradeInit ==
    /\ input = Null
    /\ parsed = NotCalled
    /\ ppc = "idle"
    /\ cache = EmptyCache
    /\ upstream = [p \in Platforms |-> NoListing]
    /\ linkCalls = [c \in LinkCallIds |-> IdleCall]
    /\ platformCalls = [p \in Platforms |-> 0]
    /\ github \in {Null, [t |-> "array", items |-> <<"caret">>],
                   [t |-> "array", items |-> <<"bare">>]}
    /\ aggCalls = [c \in AggCallIds |-> IdleCall]
    /\ enh = IdleCall
    /\ AuxIdle

DegradeNext ==
    \/ \E fn \in FetcherNames, outcome \in HttpOutcomes : ProbeCall(fn, outcome)
    \/ DegradeBatch
    \/ DegradeAgg

SpecDegrade == DegradeInit /\ [][DegradeNext]_vars

----------------------------------------------------------------------------
(* Claims about the answer 403 *)

\* C17: when GitHub answers 403, fetchGitHubAPI returns null after its one
\* request, and no service function that called it raises: every fetcher
\* returns null, an assembly whose base request got 403 returns null,
\* getEnhancedRepositories returns the empty list when its listing request
\* got 403 (and never raises), and fetchAggregatedData returns (undefined,
\* nothing cached) when the listing cannot be had
C17_DegradesOn403 ==
    /\ (probe.pc = "done" /\ probe.outcome = "e403") =>
          /\ probe.result = Null
          /\ probe.fn = "fetchGitHubAPI" => probe.requests = 1
    /\ "asm" \in DOMAIN batch =>
          \A i \in DOMAIN batch.asm :
              (batch.asm[i].pc = "done" /\ batch.asm[i].base = "e403")
                  => batch.asm[i].result = Null
    /\ batch.pc = "done" =>
          /\ batch.result.t = "array"
          /\ batch.listed = "e403" => batch.result.items = <<>>
          /\ ("asm" \in DOMAIN batch /\ \A i \in DOMAIN batch.asm : batch.asm[i].base = "e403")
                => batch.result.items = <<>>
    /\ (aggCalls[1].pc = "done" /\ github = Null) =>
          /\ aggCalls[1].result = Undefined
          /\ cache = EmptyCache

\* a batch of two repositories has ended with the empty list after the base
\* request of each got 403
C17_Witness ==
    /\ batch.pc = "done"
    /\ batch.listed = "ok"
    /\ Len(batch.repos) = 2
    /\ \A i \in DOMAIN batch.asm : batch.asm[i].base = "e403"
    /\ batch.result.items = <<>>

----------------------------------------------------------------------------
(* One aggregation pass of fetchAggregatedData, turn by turn: the loop     *)
(* over the repositories with its two folds, then the sort and the store.  *)

\* the repositories of a pass, one of them with a package.json that does not parse
PassRepoNames == RepoNames \cup {"broken"}

\* what getRepositories answers: a list, null, or the error body of a 404
PassListings ==
    { [t |-> "array", items |-> l] : l \in UNION { [1..n -> PassRepoNames] : n \in 0..MaxRepos } }
        \cup {Null, [t |-> "object", message |-> "Not Found"]}

\* the running record with one record for both kinds
aggregateVersionSharedTemp(aggregatedData, current, versionType, depType, tempData) ==
    LET r == aggregateVersion(aggregatedData[depType], current, versionType,
                              tempData.dependencies)
    IN  IF r = Thrown THEN Thrown
        ELSE [ t |-> "ok",
               aggregatedData |-> [aggregatedData EXCEPT ![depType] = r.aggregated],
               tempData |-> [tempData EXCEPT !.dependencies = r.temp] ]

\* aggregateVersion(aggregatedData[depType], current, versionType, depType, tempData):
\* the call reads and writes aggregatedData[depType] and tempData[depType]
aggregateVersionOf(aggregatedData, current, versionType, depType, tempData) ==
    LET r == aggregateVersion(aggregatedData[depType], current, versionType,
                              tempData[depType])
    IN  IF r = Thrown THEN Thrown
        ELSE [ t |-> "ok",
               aggregatedData |-> [aggregatedData EXCEPT ![depType] = r.aggregated],
               tempData |-> [tempData EXCEPT ![depType] = r.temp] ]

\* a catch block that stores what the loop had built
PassCatchStoresPartial ==
    /\ pass' = [pc |-> "done", versionType |-> pass.versionType, result |-> Undefined]
    /\ cache' = [cache EXCEPT ![PackageDataKey(pass.versionType)] =
                    IF "aggregatedData" \in DOMAIN pass THEN pass.aggregatedData
                    ELSE EmptyAggregate]

\* the catch block of fetchAggregatedData
PassCatch ==
    /\ pass' = [pc |-> "done", versionType |-> pass.versionType, result |-> Undefined]
    /\ UNCHANGED cache

\* the loop goes to its next repository, or ends
PassTurnOver(aggregatedData, tempData) ==
    pass' = [ pc |-> IF pass.i + 1 < Len(pass.repos) THEN "awaitDetails" ELSE "sort",
              versionType |-> pass.versionType, repos |-> pass.repos, i |-> pass.i + 1,
              aggregatedData |-> aggregatedData, tempData |-> tempData ]

\* fetchAggregatedData(versionType) up to its first await
PassStart(versionType) ==
    /\ pass.pc \in {"idle", "done"}
    /\ LET key == PackageDataKey(versionType)
       IN  IF Truthy(cache[key])
           THEN pass' = [pc |-> "done", versionType |-> versionType, result |-> cache[key]]
           ELSE pass' = [pc |-> "awaitRepos", versionType |-> versionType]
    /\ UNCHANGED <<cache, github, aggCalls, parseVars, linkVars, enh, batch, clockVars, sideVars>>

\* getRepositories has answered: both objects are created and the loop starts
PassListed ==
    /\ pass.pc = "awaitRepos"
    /\ IF github.t # "array" THEN PassCatch
       ELSE /\ pass' = [ pc |-> IF Len(github.items) > 0 THEN "awaitDetails" ELSE "sort",
                         versionType |-> pass.versionType, repos |-> github.items, i |-> 0,
                         aggregatedData |-> EmptyAggregate, tempData |-> EmptyAggregate ]
            /\ UNCHANGED cache
    /\ UNCHANGED <<github, aggCalls, parseVars, linkVars, enh, batch, clockVars, sideVars>>

\* getPackageDetails of the next repository has answered
PassDetails ==
    /\ pass.pc = "awaitDetails"
    /\ LET packageDetails == getPackageDetails(pass.repos[pass.i + 1])
       IN  IF packageDetails = Thrown THEN PassCatch
           ELSE /\ IF packageDetails = Null
                   THEN PassTurnOver(pass.aggregatedData, pass.tempData)
                   ELSE pass' = [pass EXCEPT !.pc = "dependencies"]
                /\ UNCHANGED cache
    /\ UNCHANGED <<github, aggCalls, parseVars, linkVars, enh, batch, clockVars, sideVars>>

\* the first call of aggregateVersion of the turn
PassDependencies ==
    /\ pass.pc = "dependencies"
    /\ LET packageDetails == getPackageDetails(pass.repos[pass.i + 1])
           r == aggregateVersionOf(pass.aggregatedData, packageDetails.dependencies,
                                   pass.versionType, "dependencies", pass.tempData)
       IN  IF r = Thrown THEN PassCatch
           ELSE /\ pass' = [pass EXCEPT !.pc = "devDependencies",
                                        !.aggregatedData = r.aggregatedData,
                                        !.tempData = r.tempData]
                /\ UNCHANGED cache
    /\ UNCHANGED <<github, aggCalls, parseVars, linkVars, enh, batch, clockVars, sideVars>>

\* the second call of aggregateVersion of the turn
PassDevDependencies ==
    /\ pass.pc = "devDependencies"
    /\ LET packageDetails == getPackageDetails(pass.repos[pass.i + 1])
           r == aggregateVersionOf(pass.aggregatedData, packageDetails.devDependencies,
                                   pass.versionType, "devDependencies", pass.tempData)
       IN  IF r = Thrown THEN PassCatch
           ELSE /\ PassTurnOver(r.aggregatedData, r.tempData)
                /\ UNCHANGED cache
    /\ UNCHANGED <<github, aggCalls, parseVars, linkVars, enh, batch, clockVars, sideVars>>

\* after the loop: both maps are sorted, stored and returned
PassEnd ==
    /\ pass.pc = "sort"
    /\ LET sorted == [ t |-> "object",
                       dependencies |-> sortObjectKeys(pass.aggregatedData.dependencies),
                       devDependencies |-> sortObjectKeys(pass.aggregatedData.devDependencies) ]
       IN  /\ cache' = [cache EXCEPT ![PackageDataKey(pass.versionType)] = sorted]
           /\ pass' = [ pc |-> "done", versionType |-> pass.versionType, repos |-> pass.repos,
                        result |-> sorted ]
    /\ UNCHANGED <<github, aggCalls, parseVars, linkVars, enh, batch, clockVars, sideVars>>

PassInit ==
    /\ input = Null
    /\ parsed = NotCalled
    /\ ppc = "idle"
    /\ cache = EmptyCache
    /\ upstream = [p \in Platforms |-> NoListing]
    /\ linkCalls = [c \in LinkCallIds |-> IdleCall]
    /\ platformCalls = [p \in Platforms |-> 0]
    /\ github \in PassListings
    /\ aggCalls = [c \in AggCallIds |-> IdleCall]
    /\ enh = IdleCall
    /\ batch = IdleCall
    /\ clock = [now |-> 0, waits |-> 0]
    /\ storedAt = 0
    /\ requests = [c \in AggCallIds |-> IdleCall]
    /\ clients = [p \in Platforms |-> IdleCall]
    /\ npmCalls = [c \in NpmCallIds |-> IdleCall]
    /\ probe = IdleCall
    /\ pass = IdleCall

PassNext ==
    \/ \E versionType \in VersionTypes : PassStart(versionType)
    \/ PassListed
    \/ PassDetails
    \/ PassDependencies
    \/ PassDevDependencies
    \/ PassEnd

SpecPass == PassInit /\ [][PassNext]_vars

----------------------------------------------------------------------------
(* Claims about the aggregation pass *)

\* the specifiers declared for a package, in one kind, by the first n
\* repositories of the list
SeenSoFar(repos, n, kind, name) ==
    { Get(getPackageDetails(repos[i])[kind].e, name) :
        i \in { j \in 1..n :
                  /\ getPackageDetails(repos[j]) \notin {Null, Thrown}
                  /\ getPackageDetails(repos[j])[kind] # Undefined
                  /\ Has(getPackageDetails(repos[j])[kind].e, name) } }

\* the loop is between two repositories, or past the last one
BetweenTurns == pass.pc \in {"awaitDetails", "sort"}

\* the running record of every kind holds exactly the names seen in the
\* first pass.i repositories, with the least and greatest version seen
RunningRecordExact ==
    \A kind \in DepKinds :
        /\ \A i \in 1..Len(pass.tempData[kind]) : pass.tempData[kind][i].k \in PackageNames
        /\ \A name \in PackageNames :
              LET S == { Triple(v) : v \in SeenSoFar(pass.repos, pass.i, kind, name) }
                  lo == Least(S)
                  hi == Greatest(S)
                  entry == Get(pass.tempData[kind], name)
              IN  IF S = {} THEN ~Has(pass.tempData[kind], name)
                  ELSE /\ Has(pass.tempData[kind], name)
                       /\ entry.min = VersionString(lo[1], lo[2], lo[3])
                       /\ entry.max = VersionString(hi[1], hi[2], hi[3])
                       /\ TripleLeq(Triple(entry.min), Triple(entry.max))

\* no name leaves the running record from one step of a pass to the next
NamesKept ==
    ("tempData" \in DOMAIN pass /\ "tempData" \in DOMAIN pass') =>
        \A kind \in DepKinds : \A i \in 1..Len(pass.tempData[kind]) :
            Has(pass'.tempData[kind], pass.tempData[kind][i].k)

\* C21: during one aggregation pass, after each repository has been
\* processed the running record of each kind holds exactly the package names
\* seen so far in that kind, each with min the least and max the greatest
\* coerced version seen so far (so min <= max); an entry once added is never
\* removed
C21_RunningRecord ==
    /\ [](BetweenTurns => RunningRecordExact)
    /\ [][NamesKept]_vars

\* three repositories declaring lodash have been processed and the running
\* record holds 4.16.0 and 4.17.21
C21_Witness ==
    /\ pass.pc = "sort"
    /\ pass.repos = <<"caret", "tilde", "old">>
    /\ Get(pass.tempData.dependencies, lodash)
         = [min |-> VersionString(4, 16, 0), max |-> VersionString(4, 17, 21)]
    /\ Get(pass.tempData.devDependencies, axios)
         = [min |-> VersionString(1, 2, 0), max |-> VersionString(1, 2, 0)]

\* the step of one kind leaves the record and the output of the other kind alone
OtherKindUntouched ==
    /\ (pass.pc = "dependencies" /\ "tempData" \in DOMAIN pass') =>
          /\ pass'.tempData.devDependencies = pass.tempData.devDependencies
          /\ pass'.aggregatedData.devDependencies = pass.aggregatedData.devDependencies
    /\ (pass.pc = "devDependencies" /\ "tempData" \in DOMAIN pass') =>
          /\ pass'.tempData.dependencies = pass.tempData.dependencies
          /\ pass'.aggregatedData.dependencies = pass.aggregatedData.dependencies

\* the output of each kind is the policy value of the specifiers of that kind alone
OutputPerKind ==
    (pass.pc = "done" /\ "repos" \in DOMAIN pass) =>
        \A kind \in DepKinds, name \in PackageNames :
            LET S == { Triple(v) : v \in SeenSoFar(pass.repos, Len(pass.repos), kind, name) }
            IN  IF S = {} THEN ~Has(pass.result[kind], name)
                ELSE Get(pass.result[kind], name) = Expected(pass.versionType, S)

\* the pass cannot complete: the listing is no list, or a listed repository
\* has a package.json that does not parse or a specifier that does not coerce
FailsPartWay ==
    \/ github.t # "array"
    \/ \E i \in 1..Len(github.items) :
          \/ github.items[i] = "broken"
          \/ \E kind \in DepKinds, name \in PackageNames :
                \E v \in SeenSoFar(github.items, i, kind, name) : ~Coerces(v)

\* C28: if fetchAggregatedData fails part-way on a cache miss (the listing
\* is null or not iterable, the package.json of some repository is not valid
\* JSON, or folding a version raises), it returns undefined without raising,
\* no result for the other repositories is returned, and the cache entry
\* 'packageData-<policy>' is what it was before the call (absent)
C28_FailureLeavesCache ==
    FailsPartWay =>
        /\ \A versionType \in VersionTypes : cache[PackageDataKey(versionType)] = Undefined
        /\ pass.pc = "done" => pass.result = Undefined

\* the second of three repositories has a package.json that does not parse:
\* the call has returned undefined and nothing is cached
C28_Witness ==
    /\ pass.pc = "done"
    /\ github = [t |-> "array", items |-> <<"caret", "broken", "tilde">>]
    /\ pass.versionType = "minmax"
    /\ pass.result = Undefined
    /\ cache = EmptyCache

\* C22: the dependencies fold and the devDependencies fold are independent:
\* processing the dependencies map of a repository changes neither the
\* running record nor the output of devDependencies, and vice versa, so a
\* package declared under both kinds gets in each kind a value computed only
\* from the specifiers of that kind
C22_FoldsIndependent ==
    /\ [][OtherKindUntouched]_vars
    /\ []OutputPerKind

\* lodash is a dependency of one repository and a dev dependency of another:
\* each kind reports its own version
C22_Witness ==
    /\ pass.pc = "done"
    /\ "repos" \in DOMAIN pass
    /\ pass.repos = <<"caret", "numbered">>
    /\ Get(pass.result.dependencies, lodash) = VersionString(4, 17, 0)
    /\ Get(pass.result.devDependencies, lodash) = VersionString(3, 0, 0)

----------------------------------------------------------------------------
(* fetchCICDStatus against a repository with a history of workflow runs *)

MaxRuns == 2

\* the histories of workflow runs of a repository, most recent run first
RunHistories == UNION { [1..n -> {ApiRun(k) : k \in 1..4}] : n \in 0..MaxRuns }

\* the request of fetchWorkflowRuns: /repos/O/N/actions/runs?per_page=perPage
RunsRequest(perPage) == [endpoint |-> "/actions/runs", per_page |-> perPage]

\* what GitHub answers to the request: the per_page most recent runs and the
\* number of all runs
ServeRuns(history, request) ==
    [ t |-> "object", total_count |-> Len(history),
      workflow_runs |->
          SubSeq(history, 1, IF Len(history) < request.per_page THEN Len(history)
                             ELSE request.per_page) ]

\* fetchCICDStatus(repoName, owner): fetchWorkflowRuns(repoName, owner, 1)
\* and the fields of its first run
CicdCall ==
    /\ probe.pc = "ready"
    /\ LET request == RunsRequest(1)
           data == fetchGitHubAPI(probe.outcome, ServeRuns(probe.history, request))
       IN  probe' = [ pc |-> "done", fn |-> "fetchCICDStatus", history |-> probe.history,
                      outcome |-> probe.outcome, requests |-> <<request>>,
                      result |-> fetchCICDStatus(fetchWorkflowRuns(data)) ]
    /\ UNCHANGED <<cache, batch, clockVars, requests, clients, npmCalls, laterVars, parseVars,
                   linkVars, aggVars, enh>>

CicdInit ==
    /\ input = Null
    /\ parsed = NotCalled
    /\ ppc = "idle"
    /\ cache = EmptyCache
    /\ upstream = [p \in Platforms |-> NoListing]
    /\ linkCalls = [c \in LinkCallIds |-> IdleCall]
    /\ platformCalls = [p \in Platforms |-> 0]
    /\ github = Null
    /\ aggCalls = [c \in AggCallIds |-> IdleCall]
    /\ enh = IdleCall
    /\ batch = IdleCall
    /\ clock = [now |-> 0, waits |-> 0]
    /\ storedAt = 0
    /\ requests = [c \in AggCallIds |-> IdleCall]
    /\ clients = [p \in Platforms |-> IdleCall]
    /\ npmCalls = [c \in NpmCallIds |-> IdleCall]
    /\ probe \in { [pc |-> "ready", fn |-> "fetchCICDStatus", history |-> h, outcome |-> o] :
                      h \in RunHistories, o \in HttpOutcomes }
    /\ pass = IdleCall

CicdNext == CicdCall

SpecCicd == CicdInit /\ [][CicdNext]_vars

\* C24: fetchCICDStatus requests exactly one workflow run (per_page = 1, the
\* most recent) and returns the fields status, conclusion, name, branch,
\* created_at, updated_at and html_url of that run; when the repository has
\* no runs, or the request fails or reports not found, it returns null
C24_LatestRunFields ==
    (probe.pc = "done" /\ probe.fn = "fetchCICDStatus" /\ "history" \in DOMAIN probe) =>
        /\ probe.requests = <<[endpoint |-> "/actions/runs", per_page |-> 1]>>
        /\ IF probe.outcome = "ok" /\ Len(probe.history) > 0
           THEN /\ DOMAIN probe.result
                      = {"t", "status", "conclusion", "name", "branch", "created_at",
                         "updated_at", "html_url"}
                /\ probe.result.status = probe.history[1].status
                /\ probe.result.conclusion = probe.history[1].conclusion
                /\ probe.result.name = probe.history[1].name
                /\ probe.result.branch = probe.history[1].head_branch
                /\ probe.result.created_at = probe.history[1].created_at
                /\ probe.result.updated_at = probe.history[1].updated_at
                /\ probe.result.html_url = probe.history[1].html_url
           ELSE probe.result = Null

\* the status of a repository with two runs has been fetched: the fields are
\* those of the more recent run
C24_Witness ==
    /\ probe.pc = "done"
    /\ "history" \in DOMAIN probe
    /\ probe.history = <<ApiRun(3), ApiRun(2)>>
    /\ probe.outcome = "ok"
    /\ probe.result # Null
    /\ probe.result.branch = Str(<<"d","e","v">>)
    /\ probe.result.conclusion = Str(<<"failure">>)

----------------------------------------------------------------------------
(* Concurrent calls of fetchAggregatedData and fetchDeploymentLinks on the *)
(* shared cache, while the repositories and the sites change upstream.     *)

\* what getRepositories may answer at different moments
RaceListings ==
    { [t |-> "array", items |-> <<"caret">>],
      [t |-> "array", items |-> <<"caret", "tilde">>],
      [t |-> "array", items |-> <<"numbered">>] }

\* the repository listing changes upstream
ListingChanges ==
    /\ github' \in RaceListings \ {github}
    /\ \E c \in AggCallIds : aggCalls[c].pc = "idle"
    /\ UNCHANGED <<cache, aggCalls, parseVars, linkVars, enh, auxVars>>

\* the sites of the platforms change upstream
SitesChange ==
    /\ upstream' \in EnhUpstreams \ {upstream}
    /\ \E c \in LinkCallIds : linkCalls[c].pc = "idle"
    /\ UNCHANGED <<cache, linkCalls, platformCalls, parseVars, aggVars, enh, auxVars>>

RaceInit ==
    /\ input = Null
    /\ parsed = NotCalled
    /\ ppc = "idle"
    /\ cache = EmptyCache
    /\ upstream \in EnhUpstreams
    /\ linkCalls = [c \in LinkCallIds |-> IdleCall]
    /\ platformCalls = [p \in Platforms |-> 0]
    /\ github \in RaceListings
    /\ aggCalls = [c \in AggCallIds |-> IdleCall]
    /\ enh = IdleCall
    /\ AuxIdle

RaceNext ==
    \/ \E c \in AggCallIds, versionType \in VersionTypes : AggStart(c, versionType)
    \/ \E c \in AggCallIds : AggRepos(c)
    \/ \E c \in AggCallIds : AggDetails(c)
    \/ \E c \in LinkCallIds : LinkStart(c, EnhTarget)
    \/ \E c \in LinkCallIds : LinkResume(c)
    \/ ListingChanges
    \/ SitesChange

SpecRace == RaceInit /\ [][RaceNext]_vars

----------------------------------------------------------------------------
(* Claims about races on the shared cache *)

\* the entry of policy versionType was stored whole by one run: it is the
\* result of a finished call made with that policy and the aggregate of one
\* listing
StoredByOneRun(versionType) ==
    LET stored == cache[PackageDataKey(versionType)]
    IN  stored # Undefined =>
            /\ \E c \in AggCallIds :
                  /\ AggDone(c)
                  /\ aggCalls[c].versionType = versionType
                  /\ aggCalls[c].result = stored
            /\ \E l \in RaceListings : stored = LoopAndSortOf[l.items, versionType]

\* the keys of both maps of the entry are in ascending order
StoredKeySorted(versionType) ==
    LET stored == cache[PackageDataKey(versionType)]
    IN  stored # Undefined =>
            /\ KeysAscending(stored.dependencies)
            /\ KeysAscending(stored.devDependencies)

\* the platform entry holds the three lists one call fetched
StoredByOneFetch ==
    LET stored == cache["deploymentPlatforms"]
    IN  stored # Undefined =>
            /\ \E c \in LinkCallIds : linkCalls[c].pc = "done" /\ linkCalls[c].data = stored
            /\ \E u \in EnhUpstreams :
                  stored = PlatformsData(u["netlify"], u["vercel"], u["render"])

\* what a finished call returned is a whole aggregate, or undefined
ServedWhole ==
    \A c \in AggCallIds :
        (AggDone(c) /\ aggCalls[c].result # Undefined) =>
            \E l \in RaceListings :
                aggCalls[c].result = LoopAndSortOf[l.items, aggCalls[c].versionType]

\* the races leave only whole values in the cache, whatever their key order
RacesOnlyStale ==
    /\ \A versionType \in VersionTypes : StoredByOneRun(versionType)
    /\ StoredByOneFetch
    /\ ServedWhole

\* C25: under any interleaving of concurrent fetchAggregatedData and
\* fetchDeploymentLinks calls, every value stored under 'packageData-P' is the
\* complete, key-sorted aggregate computed under policy P by one single run,
\* every value stored under 'deploymentPlatforms' holds the three lists of one
\* single fetch, and no partially built value is stored or served
C25_StalenessNotCorruption ==
    /\ RacesOnlyStale
    /\ \A versionType \in VersionTypes : StoredKeySorted(versionType)

----------------------------------------------------------------------------
(* Repository names with a dot: parseRepoUrl on their spellings, and       *)
(* fetchDeploymentLinks on sites that name them.                           *)

next_js == <<"n","e","x","t",".","j","s">>

DottedInputs ==
    { Str(Spelling(k, O, N)) : k \in 1..NumSpellings, O \in {ENV_USERNAME, acme},
                               N \in {y_js, next_js} }

\* each platform lists no site, or one site with one of the repo fields
DottedUpstreams ==
    [ Platforms ->
        {NoListing} \cup { [t |-> "array", items |-> <<Site("site", 1, r)>>] :
                             r \in DottedRepoFields } ]

DottedTargets == { [owner |-> Null, name |-> y_js], [owner |-> Null, name |-> repo_y] }

DottedInit ==
    /\ \/ /\ input \in DottedInputs
          /\ ppc = "ready"
          /\ upstream = [p \in Platforms |-> NoListing]
       \/ /\ input = Null
          /\ ppc = "idle"
          /\ upstream \in DottedUpstreams
    /\ parsed = NotCalled
    /\ cache = EmptyCache
    /\ linkCalls = [c \in LinkCallIds |-> IdleCall]
    /\ platformCalls = [p \in Platforms |-> 0]
    /\ github = Null
    /\ aggCalls = [c \in AggCallIds |-> IdleCall]
    /\ enh = IdleCall
    /\ AuxIdle

DottedNext ==
    \/ CallParseRepoUrl
    \/ \E c \in LinkCallIds, target \in DottedTargets : LinkStart(c, target)
    \/ \E c \in LinkCallIds : LinkResume(c)

SpecDotted == DottedInit /\ [][DottedNext]_vars

\* the string is matched by the web-URL rule or by the SSH rule
WebOrSsh(s) == WebMatch(s) # Null \/ SshMatch(s) # Null

HasChar(s, ch) == \E i \in 1..Len(s) : s[i] = ch

\* owner/name stands in the input and the name ends at a dot, at a slash or
\* at the end of the input
CutAtFirstDot(s, owner, name) ==
    \E i \in 1..Len(s) :
        LET after == i + Len(owner) + 1 + Len(name)
        IN  /\ HasAt(s, i, owner \o L_slash \o name)
            /\ (after > Len(s) \/ s[after] \in {".", "/"})

\* the name of a reference matched by the web-URL or SSH rule has no dot
\* and no slash
NameCutAtDot ==
    (ppc = "done" /\ input.t = "string" /\ WebOrSsh(input.s)) =>
        /\ parsed.t = "object"
        /\ ~HasChar(parsed.name, ".")
        /\ ~HasChar(parsed.name, "/")
        /\ CutAtFirstDot(input.s, parsed.owner, parsed.name)

\* a target with a dot in its name gets no slot from a site named by a web
\* URL or an SSH reference
DottedTargetNeverMatched ==
    \A c \in LinkCallIds, p \in Platforms :
        (LinkDone(c) /\ HasChar(TargetName(c), ".") /\ SlotOf(c, p) # Null) =>
            ~WebOrSsh(SlotOf(c, p).repo.s)

\* the site named by a web URL or SSH reference to y.js is given to target y
DottedSiteGivenToStem ==
    \A c \in LinkCallIds, p \in Platforms :
        (/\ LinkDone(c)
         /\ TargetName(c) = repo_y
         /\ Len(upstream[p].items) = 1
         /\ upstream[p].items[1].repo
               \in { Str(Spelling(k, ENV_USERNAME, y_js)) : k \in {1, 6} })
        => /\ SlotOf(c, p) # Null
           /\ SlotOf(c, p).repo = upstream[p].items[1].repo

\* C30: for inputs matched by the web-URL or SSH rule the name returned by
\* parseRepoUrl never contains '.' or '/': it is cut at the first dot after
\* the owner; so for a target whose name contains a dot fetchDeploymentLinks
\* never matches a site whose repo field is a github.com web URL or an SSH
\* reference, and a site whose repo URL names O/N.ext is matched to the
\* target O/N
C30_NameCutAtDot ==
    /\ NameCutAtDot
    /\ DottedTargetNeverMatched
    /\ DottedSiteGivenToStem

\* netlify lists one site, of https://github.com/U/y.js: the call for y.js
\* found nothing and the call for y was given that site
C30_Witness ==
    /\ upstream["netlify"].items = <<Site("site", 1, Str(Spelling(1, ENV_USERNAME, y_js)))>>
    /\ upstream["vercel"] = NoListing
    /\ upstream["render"] = NoListing
    /\ \E c, d \in LinkCallIds :
          /\ LinkDone(c) /\ TargetName(c) = y_js /\ linkCalls[c].result = Null
          /\ LinkDone(d) /\ TargetName(d) = repo_y
          /\ SlotOf(d, "netlify") # Null
          /\ SlotOf(d, "netlify").repo = Str(Spelling(1, ENV_USERNAME, y_js))

====
